---- MODULE Spec2Model ----
(***************************************************************************)
(* A model of the retrieval-augmented pipeline of the policy helper:       *)
(* document loading and chunking (app/ingest), the RAG engine              *)
(* (app/rag/core.py), its two vector stores (app/rag/stores.py), its       *)
(* generators (app/rag/llms.py) and the request handlers                   *)
(* (app/api/routes.py), which the server runs on worker threads.           *)
(*                                                                         *)
(* Texts are sequences of atoms; the atom " " is whitespace and every      *)
(* other atom is one character of a word.  Similarity scores are integers  *)
(* in hundredths (50 stands for 0.50).                                     *)
(***************************************************************************)
EXTENDS Integers, Sequences, FiniteSets, TLC

\* ------------------------------------------------------------------ bounds

NumThreads == 2
MaxRequests == 3

\* the longest candidate list given to the reranker on its own
MaxCands == 3

\* the longest batch given to the store on its own
MaxBatch == 2

\* the longest text and the largest chunk size given to chunk_text on its own
MaxTextLen == 6
MaxChunkSize == 3

\* the chunks one call of chunk_text is followed for
MaxChunks == 10

\* settings.chunk_size and settings.chunk_overlap, as configured for the model
ChunkSize == 3
ChunkOverlap == 1

\* ----------------------------------------------------------------- helpers

None == "None"

Min(a, b) == IF a <= b THEN a ELSE b

Max(a, b) == IF a >= b THEN a ELSE b

Range(s) == {s[i] : i \in 1..Len(s)}

\* a slice that keeps the whole list
PySliceAll(s, k) == s

\* Python's s[:k] for any integer k (a negative k drops the last -k items)
PySliceTo(s, k) ==
  IF k >= 0 THEN SubSeq(s, 1, Min(k, Len(s)))
  ELSE SubSeq(s, 1, Max(0, Len(s) + k))

\* a window that stops one item early
PySliceShort(s, i, n) == SubSeq(s, i + 1, Min(i + n - 1, Len(s)))

\* Python's s[i:i+n] for i >= 0
PySlice(s, i, n) == SubSeq(s, i + 1, Min(i + n, Len(s)))

RECURSIVE Flatten(_)
Flatten(ss) == IF ss = <<>> THEN <<>> ELSE Head(ss) \o Flatten(Tail(ss))

\* ------------------------------------------------- ingest/helpers.py, utils.py

\* str.split(): the maximal runs of non-whitespace atoms
RECURSIVE SplitFrom(_, _, _)
SplitFrom(text, i, cur) ==
  IF i > Len(text) THEN (IF cur = <<>> THEN <<>> ELSE <<cur>>)
  ELSE IF text[i] = " "
       THEN (IF cur = <<>> THEN <<>> ELSE <<cur>>) \o SplitFrom(text, i + 1, <<>>)
       ELSE SplitFrom(text, i + 1, Append(cur, text[i]))

Split(text) == SplitFrom(text, 1, <<>>)

\* " ".join(tokens)
RECURSIVE Join(_)
Join(tokens) ==
  IF tokens = <<>> THEN <<>>
  ELSE IF Len(tokens) = 1 THEN tokens[1]
  ELSE tokens[1] \o <<" ">> \o Join(Tail(tokens))

\* a loop without the break: it goes on while the window start is in the text
RECURSIVE ChunkLoopNoBreak(_, _, _, _)
ChunkLoopNoBreak(tokens, i, chunk_size, overlap) ==
  IF i >= Len(tokens) THEN <<>>
  ELSE <<Join(PySlice(tokens, i, chunk_size))>>
         \o ChunkLoopNoBreak(tokens, i + (chunk_size - overlap), chunk_size, overlap)

\* the while loop of chunk_text, from window start i (0-based) on
RECURSIVE ChunkLoop(_, _, _, _)
ChunkLoop(tokens, i, chunk_size, overlap) ==
  IF ~(i < Len(tokens)) THEN <<>>
  ELSE LET chunk == PySlice(tokens, i, chunk_size)
       IN  IF i + chunk_size >= Len(tokens)
           THEN <<Join(chunk)>>
           ELSE <<Join(chunk)>> \o ChunkLoop(tokens, i + (chunk_size - overlap), chunk_size, overlap)

chunk_text(text, chunk_size, overlap) == ChunkLoop(Split(text), 0, chunk_size, overlap)

\* doc_hash: SHA-256 of the text, taken as collision-free
doc_hash(text) == <<"sha256", text>>

UpperToLower ==
  [c \in {"A","B","C","D","E","F","G","H","I","J","K","L","M",
          "N","O","P","Q","R","S","T","U","V","W","X","Y","Z"} |->
     CASE c = "A" -> "a" [] c = "B" -> "b" [] c = "C" -> "c" [] c = "D" -> "d"
       [] c = "E" -> "e" [] c = "F" -> "f" [] c = "G" -> "g" [] c = "H" -> "h"
       [] c = "I" -> "i" [] c = "J" -> "j" [] c = "K" -> "k" [] c = "L" -> "l"
       [] c = "M" -> "m" [] c = "N" -> "n" [] c = "O" -> "o" [] c = "P" -> "p"
       [] c = "Q" -> "q" [] c = "R" -> "r" [] c = "S" -> "s" [] c = "T" -> "t"
       [] c = "U" -> "u" [] c = "V" -> "v" [] c = "W" -> "w" [] c = "X" -> "x"
       [] c = "Y" -> "y" [] c = "Z" -> "z"]

\* a comparison that keeps the case of the heading
KeepCase(s) == s

\* str.lower() on a sequence of characters
Lower(s) == [i \in 1..Len(s) |-> IF s[i] \in DOMAIN UpperToLower THEN UpperToLower[s[i]] ELSE s[i]]

\* Python's `kw in s` on sequences of characters
Contains(s, kw) == \E i \in 1..(Len(s) - Len(kw) + 1) : SubSeq(s, i, i + Len(kw) - 1) = kw

high_priority_keywords ==
  << <<"s","l","a">>, <<"p","o","l","i","c","y">>, <<"t","e","r","m","s">>,
     <<"c","o","n","d","i","t","i","o","n","s">>, <<"r","e","f","u","n","d">>,
     <<"w","a","r","r","a","n","t","y">>, <<"c","o","m","p","l","i","a","n","c","e">> >>

medium_priority_keywords ==
  << <<"g","u","i","d","e">>, <<"c","a","t","a","l","o","g">>,
     <<"e","x","c","l","u","s","i","o","n","s">>, <<"c","u","t","-","o","f","f">>,
     <<"s","h","i","p","p","i","n","g">>, <<"d","e","l","i","v","e","r","y">> >>

\* _detect_section_priority on the characters of a heading
detect_section_priority(section_title) ==
  IF section_title = <<>> THEN "low"
  ELSE LET title_lower == Lower(section_title)
       IN  IF \E i \in 1..Len(high_priority_keywords) : Contains(title_lower, high_priority_keywords[i])
           THEN "high"
           ELSE IF \E i \in 1..Len(medium_priority_keywords) : Contains(title_lower, medium_priority_keywords[i])
                THEN "medium"
                ELSE "low"

\* ------------------------------------------------------- the document corpus

\* A file of the data directory: its name (stem and extension), whether it can
\* be read, and its text as the parts that the heading split of _md_sections
\* yields: the level and the title of the heading line of the part (level 0: no
\* heading line) and the text below that line.
GuideFile ==
  [stem |-> "Internal_SOP_Agent_Guide", ext |-> ".md", readable |-> TRUE,
   parts |-> << [heading_level |-> 1, heading |-> <<"A","g","e","n","t"," ","G","u","i","d","e">>,
                 text |-> <<"never", " ", "invent", " ", "facts">>] >>]

ReturnsFile ==
  [stem |-> "Returns_and_Refunds", ext |-> ".md", readable |-> TRUE,
   parts |-> << [heading_level |-> 0, heading |-> <<>>,
                 text |-> <<"see", " ", "terms">>],
                [heading_level |-> 1, heading |-> <<"R","e","f","u","n","d"," ","P","o","l","i","c","y">>,
                 text |-> <<"14", " ", " ", "days">>] >>]

ShippingFile ==
  [stem |-> "Delivery_and_Shipping", ext |-> ".TXT", readable |-> TRUE,
   parts |-> << [heading_level |-> 0, heading |-> <<>>,
                 text |-> <<"see", " ", "terms">>],
                [heading_level |-> 2, heading |-> <<"D","e","l","i","v","e","r","y">>,
                 text |-> <<"2", " ", "days">>] >>]

BrokenFile ==
  [stem |-> "Broken", ext |-> ".md", readable |-> FALSE,
   parts |-> << [heading_level |-> 0, heading |-> <<>>, text |-> <<"lost", " ", "text">>] >>]

LogoFile ==
  [stem |-> "logo", ext |-> ".png", readable |-> TRUE, parts |-> <<>>]

\* every file the model knows, in the order sorted() gives their names
SortedFiles == <<BrokenFile, ShippingFile, GuideFile, ReturnsFile, LogoFile>>

\* the states of settings.data_dir an Ingest request may find: the directory
\* is missing, or it holds these files
DataDirs ==
  { [exists |-> FALSE, files |-> {}],
    [exists |-> TRUE, files |-> {}],
    [exists |-> TRUE, files |-> {GuideFile, ReturnsFile, LogoFile}],
    [exists |-> TRUE, files |-> {GuideFile, ShippingFile, BrokenFile}],
    [exists |-> TRUE, files |-> {GuideFile, ReturnsFile, ShippingFile}] }

FileName(f) == f.stem \o f.ext

\* fname.lower() of the extensions in use
LowerExt(ext) ==
  CASE ext = ".MD" -> ".md" [] ext = ".TXT" -> ".txt" [] ext = ".Txt" -> ".txt" [] OTHER -> ext

\* ------------------------------------------------------------ ingest/core.py

\* sorted(os.listdir(data_dir))
SortedListing(dir) == SelectSeq(SortedFiles, LAMBDA f : f \in dir)

\* a loader without the reserved-file test
NoReservedFile(f) == FALSE

\* the reserved-file test of load_documents
IsAgentGuide(f) == FileName(f) = "Internal_SOP_Agent_Guide.md"

\* fname.lower().endswith((".md", ".txt"))
HasDocExtension(f) == LowerExt(f.ext) \in {".md", ".txt"}

\* the part p of _md_sections as written in the file: its heading line (the
\* "#" marks, the title) and the text below it
PartText(part) ==
  IF part.heading_level > 0
  THEN [i \in 1..part.heading_level |-> "#"] \o <<" ">> \o part.heading \o <<" ">> \o part.text
  ELSE part.text

\* _md_sections: (title, body, heading_level) per part, the body being the
\* whole part; a text without parts yields the single section ("Body", text, 0)
md_sections(parts) ==
  IF parts = <<>> THEN << [section |-> <<"B","o","d","y">>, body |-> <<>>, heading_level |-> 0] >>
  ELSE [i \in 1..Len(parts) |->
          IF parts[i].heading_level > 0
          THEN [section |-> parts[i].heading, body |-> PartText(parts[i]),
                heading_level |-> parts[i].heading_level]
          ELSE [section |-> <<"B","o","d","y">>, body |-> PartText(parts[i]), heading_level |-> 0]]

\* a loader that takes whatever text is there when a read fails
ReadAnyway(f) == TRUE

\* _read_text_file(path) and _md_sections(text) return
ReadSucceeds(f) == f.readable

\* the sections one file contributes to load_documents: none when it is
\* skipped (reserved name, other extension) or when reading it raises
FileDocs(f) ==
  IF IsAgentGuide(f) THEN <<>>
  ELSE IF ~HasDocExtension(f) THEN <<>>
  ELSE IF ~ReadSucceeds(f) THEN <<>>
  ELSE LET sections == md_sections(f.parts)
       IN  [i \in 1..Len(sections) |->
              [title |-> FileName(f), section |-> sections[i].section,
               text |-> sections[i].body, heading_level |-> sections[i].heading_level,
               section_priority |-> detect_section_priority(sections[i].section)]]

\* load_documents of an existing directory
load_documents(dir) ==
  LET files == SortedListing(dir)
  IN  Flatten([i \in 1..Len(files) |-> FileDocs(files[i])])

\* build_chunks_from_docs
build_chunks_from_docs(docs, chunk_size, overlap) ==
  Flatten([i \in 1..Len(docs) |->
    LET d == docs[i]
        chs == chunk_text(d.text, chunk_size, overlap)
    IN  [j \in 1..Len(chs) |->
           [title |-> d.title, section |-> d.section, text |-> chs[j],
            heading_level |-> d.heading_level, section_priority |-> d.section_priority]]])

\* ------------------------------------------------------------ rag/embedders.py

\* LocalEmbedder.embed: a unit vector drawn from a generator seeded with the
\* SHA-1 of the text; the vector is identified by the text that seeds it
embed(text) == <<"vec", text>>

\* the words of the text behind a vector
VecWords(v) == Range(Split(v[2]))

\* the fixed pseudo-random geometry of the embedding space, per word
WordNoise(w) ==
  CASE w = <<"see">> -> -10 [] w = <<"ships">> -> -15 [] w = <<"days">> -> 10
    [] w = <<"refund">> -> 5 [] w = <<"window">> -> 5 [] OTHER -> 0

RECURSIVE SumOver(_, _)
SumOver(S, f) ==
  IF S = {} THEN 0 ELSE LET x == CHOOSE y \in S : TRUE IN f[x] + SumOver(S \ {x}, f)

\* the cosine similarity of two embedded texts, in hundredths: 1.00 for equal
\* texts, otherwise a fixed value in (-1, 1) that depends on both texts
Cosine(q, v) ==
  IF q = v THEN 100
  ELSE LET ws == VecWords(v)
       IN  SumOver(ws, [w \in ws |-> IF w \in VecWords(q) THEN 30 ELSE WordNoise(w)])

\* --------------------------------------------------------------- rag/stores.py

\* np.argsort(-sims): every order of the indices S by non-increasing score
\* (the default sort is not stable, so equal scores may come in any order)
RECURSIVE ArgSorts(_, _)
ArgSorts(S, sims) ==
  IF S = {} THEN {<<>>}
  ELSE UNION { {<<i>> \o rest : rest \in ArgSorts(S \ {i}, sims)} :
               i \in {j \in S : \A l \in S : sims[j] >= sims[l]} }

\* InMemoryStore.search: the outcomes it may have for the lists vecs and meta,
\* each the list it returns or an IndexError raised (a chosen index beyond the
\* end of meta)
MemSearch(vecs, meta, query, k) ==
  IF vecs = <<>> THEN {[raised |-> FALSE, results |-> <<>>]}
  ELSE LET sims == [i \in 1..Len(vecs) |-> Cosine(query, vecs[i])]
       IN  { LET idx == PySliceTo(order, k)
             IN  IF \E n \in 1..Len(idx) : idx[n] > Len(meta)
                 THEN [raised |-> TRUE, results |-> <<>>]
                 ELSE [raised |-> FALSE,
                       results |-> [n \in 1..Len(idx) |-> [score |-> sims[idx[n]], meta |-> meta[idx[n]]]]]
             : order \in ArgSorts(1..Len(vecs), sims) }

\* m.get("hash") is truthy: the metadata carries a content hash
HasHash(m) == "hash" \in DOMAIN m

\* an upsert that appends every record, stored or not
MemUpsertAlways(st, vectors, metadatas, i) ==
  [vecs |-> st.vecs \o SubSeq(vectors, i, Min(Len(vectors), Len(metadatas))),
   meta |-> st.meta \o SubSeq(metadatas, i, Min(Len(vectors), Len(metadatas))),
   hashes |-> st.hashes \cup {metadatas[j].hash : j \in {n \in i..Min(Len(vectors), Len(metadatas)) :
                                                          HasHash(metadatas[n])}}]

\* InMemoryStore.upsert from the i-th pair of zip(vectors, metadatas) on: the
\* store [vecs, meta, hashes] it leaves
RECURSIVE MemUpsertFrom(_, _, _, _)
MemUpsertFrom(st, vectors, metadatas, i) ==
  IF i > Min(Len(vectors), Len(metadatas)) THEN st
  ELSE LET m == metadatas[i]
       IN  IF HasHash(m) /\ m.hash \in st.hashes
           THEN MemUpsertFrom(st, vectors, metadatas, i + 1)
           ELSE MemUpsertFrom([vecs |-> Append(st.vecs, vectors[i]),
                               meta |-> Append(st.meta, m),
                               hashes |-> IF HasHash(m) THEN st.hashes \cup {m.hash} ELSE st.hashes],
                              vectors, metadatas, i + 1)

\* InMemoryStore.upsert, one complete call
MemUpsert(st, vectors, metadatas) == MemUpsertFrom(st, vectors, metadatas, 1)

\* convert_to_uuid: the first 32 hex digits of the hash, as a UUID
convert_to_uuid(h) == <<"uuid", h>>

\* QdrantStore.upsert, when the request succeeds: the points of the collection
\* afterwards (a point with the id of a new one is replaced)
QdrantUpserted(points, vectors, metadatas) ==
  LET new == { [id |-> convert_to_uuid(metadatas[i].hash), vector |-> vectors[i],
                payload |-> metadatas[i]] : i \in 1..Min(Len(vectors), Len(metadatas)) }
  IN  {p \in points : \A n \in new : n.id # p.id} \cup new

\* QdrantStore.search, when the request succeeds: the limit best-scoring points
QdrantSearch(points, query, limit) ==
  LET ps == CHOOSE seq \in [1..Cardinality(points) -> points] : Range(seq) = points
      sims == [i \in 1..Len(ps) |-> Cosine(query, ps[i].vector)]
  IN  { LET idx == SubSeq(order, 1, Min(limit, Len(order)))
        IN  [n \in 1..Len(idx) |-> [score |-> sims[idx[n]], meta |-> ps[idx[n]].payload]]
        : order \in ArgSorts(1..Len(ps), sims) }

\* ----------------------------------------------------- rag/core.py: reranking

\* dict.get(key, default)
Get(d, key, default) == IF key \in DOMAIN d THEN d[key] ELSE default

\* the heading-level factor, in hundredths
HeadingBoost(heading_level) ==
  CASE heading_level = 1 -> 120 [] heading_level = 2 -> 115 [] heading_level = 3 -> 110
    [] OTHER -> 100

\* the section-priority factor, in hundredths
PriorityBoost(section_priority) ==
  CASE section_priority = "high" -> 115 [] section_priority = "medium" -> 105 [] OTHER -> 100

\* boosts that add up: score * (1 + (h - 1) + (p - 1)), in units of 10^-6
BoostedScoreAdditive(score, meta) ==
  score * (HeadingBoost(Get(meta, "heading_level", 0))
           + PriorityBoost(Get(meta, "section_priority", "low")) - 100) * 100

\* boosted_score, in units of 10^-6
BoostedScore(score, meta) ==
  score * HeadingBoost(Get(meta, "heading_level", 0))
        * PriorityBoost(Get(meta, "section_priority", "low"))

\* a.get(key) == b.get(key), a missing key reading as None
SameField(a, b, key) ==
  IF key \in DOMAIN a /\ key \in DOMAIN b THEN a[key] = b[key]
  ELSE key \notin DOMAIN a /\ key \notin DOMAIN b

\* a penalty for every candidate of a document already selected
MaxSimSameTitle(selected, meta) ==
  IF \E i \in 1..Len(selected) : SameField(selected[i], meta, "title") THEN 1 ELSE 0

\* max_sim: 1 when a selected item has the same title and the same section
MaxSim(selected, meta) ==
  IF \E i \in 1..Len(selected) :
       SameField(selected[i], meta, "title") /\ SameField(selected[i], meta, "section")
  THEN 1 ELSE 0

\* mmr_score with lambda_param = 0.7, in units of 10^-7
MmrScore(selected, cand) ==
  7 * BoostedScore(cand.score, cand.meta) - 3 * MaxSim(selected, cand.meta) * 1000000

\* best_idx of one pass over remaining: a later index replaces the best one
\* only when its score is strictly greater
BestIdx(selected, remaining) ==
  CHOOSE i \in 1..Len(remaining) :
    /\ \A j \in 1..Len(remaining) : MmrScore(selected, remaining[i]) >= MmrScore(selected, remaining[j])
    /\ \A j \in 1..(i - 1) : MmrScore(selected, remaining[j]) < MmrScore(selected, remaining[i])

RemoveAt(s, i) == SubSeq(s, 1, i - 1) \o SubSeq(s, i + 1, Len(s))

\* a loop that drops the candidates sharing title and section with a
\* selected item
RECURSIVE MmrLoopSkipsSame(_, _, _)
MmrLoopSkipsSame(selected, remaining, k) ==
  LET fresh == SelectSeq(remaining, LAMBDA c : MaxSim(selected, c.meta) = 0)
  IN  IF Len(selected) < k /\ fresh # <<>>
      THEN LET best_idx == BestIdx(selected, fresh)
           IN  MmrLoopSkipsSame(Append(selected, fresh[best_idx].meta), RemoveAt(fresh, best_idx), k)
      ELSE selected

\* the while loop of _mmr_rerank
RECURSIVE MmrLoop(_, _, _)
MmrLoop(selected, remaining, k) ==
  IF Len(selected) < k /\ remaining # <<>>
  THEN LET best_idx == BestIdx(selected, remaining)
       IN  MmrLoop(Append(selected, remaining[best_idx].meta), RemoveAt(remaining, best_idx), k)
  ELSE selected

\* the item _mmr_rerank selects first: remaining.pop(0)
SeedIdx(candidates) == 1

\* a reranker that returns early only for an empty candidate list
ShortcutOnlyWhenEmpty(candidates, k) == candidates = <<>>

\* not candidates or k >= len(candidates)
TakesShortcut(candidates, k) == candidates = <<>> \/ k >= Len(candidates)

\* RAGEngine._mmr_rerank
mmr_rerank(candidates, k) ==
  IF TakesShortcut(candidates, k)
  THEN LET head == PySliceTo(candidates, k) IN [i \in 1..Len(head) |-> head[i].meta]
  ELSE MmrLoop(<<candidates[SeedIdx(candidates)].meta>>,
               RemoveAt(candidates, SeedIdx(candidates)), k)

\* ------------------------------------------------------------- rag/llms.py

\* what the completion API of a networked provider may do with one request
ApiOutcomes == {"text", "null_content", "error"}

\* the request of a networked generator failed, or its reply has no content
ApiFailed(llm_impl, api) == llm_impl # "StubLLM" /\ api # "text"

\* a networked generator that answers a failed request with a text of its own
NetworkedGenerateSilent(api) == "answer"

\* OpenAILLM.generate / OllamaLLM.generate: the answer text, or "raise" (the
\* transport error, or the TypeError of len(None) for a reply without content)
NetworkedGenerate(api) == IF api = "text" THEN "answer" ELSE "raise"

\* StubLLM.generate: always an answer, built from the contexts alone
StubGenerate(contexts) == "answer"

\* llm.generate of the engine's generator for one API outcome
LlmGenerate(llm_impl, api, contexts) ==
  IF llm_impl = "StubLLM" THEN StubGenerate(contexts) ELSE NetworkedGenerate(api)

\* ------------------------------------------------------------- the state

VARIABLES
  settings,        \* settings.vector_store, llm_provider, openai_api_key
  env,             \* what the backends did when the engine was constructed
  store,           \* class of engine.store: "InMemoryStore" or "QdrantStore"
  fallback_used,   \* engine._fallback_used
  llm,             \* class of engine.llm
  llm_name,        \* engine.llm_name
  doc_titles,      \* engine._doc_titles
  chunk_hashes,    \* engine._chunk_hashes
  chunk_count,     \* engine._chunk_count
  ask_count,       \* engine._ask_count
  t_retrieval,     \* engine.metrics.t_retrieval
  t_generation,    \* engine.metrics.t_generation
  vecs,            \* InMemoryStore.vecs
  meta,            \* InMemoryStore.meta
  store_hashes,    \* InMemoryStore._hashes
  qdrant_points,   \* the points of the Qdrant collection
  pc,              \* per worker thread: where its request handler stands
  loc,             \* per worker thread: the locals of its request handler
  last_resp,       \* the response sent last, until the next request is taken
  nreq,            \* requests received so far
  hist,            \* history of the calls made so far (not program state)
  rr               \* a call of one function on its own: input and result

vars == <<settings, env, store, fallback_used, llm, llm_name, doc_titles, chunk_hashes,
          chunk_count, ask_count, t_retrieval, t_generation, vecs, meta, store_hashes,
          qdrant_points, pc, loc, last_resp, nreq, hist, rr>>

engine_vars == <<settings, env, store, fallback_used, llm, llm_name, doc_titles, chunk_hashes,
                 chunk_count, ask_count, t_retrieval, t_generation, vecs, meta, store_hashes,
                 qdrant_points, pc, loc, last_resp, nreq, hist>>

Threads == 1..NumThreads

\* the elapsed wall-clock time a call measures, in ms: the model's clock gives
\* the calls of the n-th request n ms each, so that samples of different
\* requests differ
Latencies == {nreq}

\* the queries of Ask requests
Queries == { <<"days">>, <<"refund", " ", "terms">> }

\* the k of Ask requests: absent (null), or an integer
AskKs == {[given |-> FALSE, value |-> 0]} \cup {[given |-> TRUE, value |-> v] : v \in -1..2}

\* ------------------------------------------------ rag/core.py: construction

\* the configurations and backend conditions an engine may be constructed in:
\* the Qdrant collection exists, is absent (and is created), or Qdrant is down
Settings ==
  [vector_store : {"qdrant", "memory"}, llm_provider : {"stub", "openai", "ollama"},
   openai_api_key : {None, "sk-key"}]

Envs == [qdrant : {"exists", "absent", "down"}, llm_init : {"ok", "raise"}]

\* QdrantStore.__init__ with _ensure_collection: "raise" when a request of the
\* constructor fails and is not handled
QdrantStoreInit(e) == IF e.qdrant = "down" THEN "raise" ELSE "ok"

\* a store selection that falls back without recording it
SelectStoreUnflagged(s, e) ==
  IF s.vector_store = "qdrant" /\ QdrantStoreInit(e) = "ok" THEN <<"QdrantStore", FALSE>>
  ELSE <<"InMemoryStore", FALSE>>

\* vector store selection: <<class of the store, _fallback_used>>
SelectStore(s, e) ==
  IF s.vector_store = "qdrant"
  THEN IF QdrantStoreInit(e) = "ok" THEN <<"QdrantStore", FALSE>>
       ELSE <<"InMemoryStore", TRUE>>
  ELSE <<"InMemoryStore", FALSE>>

\* an LLM selection that keeps the name of the provider it had to replace
SelectLlmKeepsName(s, e) ==
  IF s.llm_provider = "openai" /\ s.openai_api_key # None
  THEN <<IF e.llm_init = "ok" THEN "OpenAILLM" ELSE "StubLLM", "openai:gpt-4o-mini">>
  ELSE IF s.llm_provider = "ollama"
       THEN <<IF e.llm_init = "ok" THEN "OllamaLLM" ELSE "StubLLM", "ollama:model">>
       ELSE <<"StubLLM", "stub">>

\* LLM selection: <<class of the generator, llm_name>>
SelectLlm(s, e) ==
  IF s.llm_provider = "openai" /\ s.openai_api_key # None
  THEN IF e.llm_init = "ok" THEN <<"OpenAILLM", "openai:gpt-4o-mini">> ELSE <<"StubLLM", "stub">>
  ELSE IF s.llm_provider = "ollama"
       THEN IF e.llm_init = "ok" THEN <<"OllamaLLM", "ollama:model">> ELSE <<"StubLLM", "stub">>
       ELSE <<"StubLLM", "stub">>

NoLoc ==
  [chunks |-> <<>>, idx |-> 0, metas |-> <<>>, before |-> {}, tmp |-> 0, j |-> 0,
   query |-> <<>>, k |-> 0, ctx |-> <<>>, answer |-> None, entry |-> 0]

NoMetrics ==
  [total_docs |-> 0, total_chunks |-> 0, ask_count |-> 0, fallback_used |-> FALSE,
   llm_model |-> None, avg_retrieval_latency_ms |-> 0, avg_generation_latency_ms |-> 0]

NoResp ==
  [thread |-> 0, op |-> "none", status |-> 0, detail |-> "", indexed_docs |-> 0, indexed_chunks |-> 0,
   citations |-> <<>>, chunks |-> <<>>, metrics |-> NoMetrics]

NoHist ==
  [sum_docs |-> 0, sum_chunks |-> 0, ingest_raised |-> 0, twice |-> {},
   gen_calls |-> 0, gen_before |-> 0, gen_after |-> 0, gen_raised |-> FALSE,
   ing_valid |-> FALSE, ing_chunks |-> <<>>, ing_post |-> <<>>, ing_same |-> FALSE,
   ing_repeat |-> FALSE, ing_result |-> [raised |-> FALSE, docs |-> 0, chunks |-> 0],
   store_raised |-> FALSE, api_failed |-> FALSE, dir_missing |-> FALSE, ing_files |-> {},
   first |-> {}]

RrOff == [pc |-> "off", candidates |-> <<>>, k |-> 0, out |-> <<>>]

\* the engine RAGEngine.__init__ leaves for settings s under conditions e
Constructed(s, e) ==
  /\ settings = s
  /\ env = e
  /\ store = SelectStore(s, e)[1]
  /\ fallback_used = SelectStore(s, e)[2]
  /\ llm = SelectLlm(s, e)[1]
  /\ llm_name = SelectLlm(s, e)[2]
  /\ doc_titles = {}
  /\ chunk_hashes = {}
  /\ chunk_count = 0
  /\ ask_count = 0
  /\ t_retrieval = <<>>
  /\ t_generation = <<>>
  /\ vecs = <<>>
  /\ meta = <<>>
  /\ store_hashes = {}
  /\ qdrant_points = {}
  /\ pc = [t \in Threads |-> "idle"]
  /\ loc = [t \in Threads |-> NoLoc]
  /\ last_resp = NoResp
  /\ nreq = 0
  /\ hist = NoHist

\* the configurations the model constructs an engine in: every case of the
\* vector store selection and every case of the LLM selection (an API key that
\* is not needed is left unset, and so is the condition of a backend that is
\* not configured)
Configs ==
  { c \in Settings \X Envs :
      /\ (c[1].vector_store = "memory") => (c[2].qdrant = "down")
      /\ (c[1].llm_provider # "openai") => (c[1].openai_api_key = None)
      /\ (SelectLlm(c[1], [c[2] EXCEPT !.llm_init = "ok"])[1] = "StubLLM") => (c[2].llm_init = "ok")
      /\ \/ c[1].vector_store = "memory"
         \/ c[1].llm_provider = "stub"
         \/ (c[1].llm_provider = "openai" /\ c[2].qdrant = "exists" /\ c[2].llm_init = "ok") }

Init ==
  /\ \E c \in Configs : Constructed(c[1], c[2])
  /\ rr = RrOff

\* ---------------------------------------------------- rag/core.py: the engine

\* Metrics.summary: one average, in hundredths of a ms, rounded to the nearest
RECURSIVE SumSeq(_)
SumSeq(q) == IF q = <<>> THEN 0 ELSE Head(q) + SumSeq(Tail(q))

Average(samples) ==
  IF samples = <<>> THEN 0 ELSE (200 * SumSeq(samples) + Len(samples)) \div (2 * Len(samples))

\* RAGEngine.stats
stats ==
  [total_docs |-> Cardinality(doc_titles), total_chunks |-> chunk_count,
   ask_count |-> ask_count, fallback_used |-> fallback_used, llm_model |-> llm_name,
   avg_retrieval_latency_ms |-> Average(t_retrieval),
   avg_generation_latency_ms |-> Average(t_generation)]

\* an ingest without the dedup test
NeverIndexed(h, hashes) == FALSE

\* the dedup test of ingest_chunks: h in self._chunk_hashes
AlreadyIndexed(h, hashes) == h \in hashes

\* the metadata record ingest_chunks builds for a new chunk
ChunkMeta(ch, h) ==
  [id |-> h, hash |-> h, title |-> ch.title, section |-> Get(ch, "section", None),
   text |-> ch.text, heading_level |-> Get(ch, "heading_level", 0),
   section_priority |-> Get(ch, "section_priority", "low")]

\* req.k or 4
KOrDefault(k) == IF ~k.given \/ k.value = 0 THEN 4 ELSE k.value

\* what ingest_chunks reads and writes: the engine's ingest state and the stores
IngestState == <<chunk_hashes, doc_titles, chunk_count, vecs, meta, store_hashes, qdrant_points>>

Idle(t) == pc[t] = "idle"

AllIdle == \A t \in Threads : Idle(t)

\* the detail of an HTTPException, up to its colon
ErrorDetail(op, status) ==
  CASE status = 404 -> "Data directory not found"
    [] op = "ingest" -> "Error ingesting documents"
    [] OTHER -> "Error processing query"

\* an error response of a request handler
ErrorResp(t, op, status) ==
  [NoResp EXCEPT !.thread = t, !.op = op, !.status = status, !.detail = ErrorDetail(op, status)]

\* a handler that reports a missing directory as any other failure
MissingDirGeneric(t) == ErrorResp(t, "ingest", 500)

\* post_ingest on FileNotFoundError
MissingDirResp(t) == ErrorResp(t, "ingest", 404)

\* the history after a call of ingest_chunks ends with `result`
IngestEnded(t, result) ==
  [hist EXCEPT !.ing_valid = TRUE, !.ing_chunks = loc[t].chunks, !.ing_post = IngestState',
               !.ing_same = (IngestState' = hist.ing_post),
               !.ing_repeat = hist.ing_valid /\ hist.ing_chunks = loc[t].chunks,
               !.ing_result = result]

\* ---------------------------------------------------- POST /api/ingest

\* post_ingest up to the loop of ingest_chunks: load_documents (404 when the
\* directory is missing), build_chunks_from_docs, the snapshot of the titles
\* the chunks passed to ingest_chunks so far, one per text: the title and
\* section of the first chunk of each text, in the order the loop visits them
FirstSeen(first, chunks) ==
  first \cup { [text |-> chunks[i].text, title |-> chunks[i].title,
                section |-> Get(chunks[i], "section", None)] :
                i \in { n \in 1..Len(chunks) :
                          /\ \A r \in first : r.text # chunks[n].text
                          /\ \A m \in 1..(n - 1) : chunks[m].text # chunks[n].text } }

IngestStart(t, dirs) ==
  /\ Idle(t)
  /\ nreq < MaxRequests
  /\ nreq' = nreq + 1
  /\ \E dir \in dirs :
       IF ~dir.exists
       THEN /\ last_resp' = MissingDirResp(t)
            /\ hist' = [hist EXCEPT !.store_raised = FALSE, !.dir_missing = TRUE]
            /\ UNCHANGED <<pc, loc>>
       ELSE /\ loc' = [loc EXCEPT ![t] =
                 [NoLoc EXCEPT !.chunks = build_chunks_from_docs(load_documents(dir.files),
                                                                 ChunkSize, ChunkOverlap),
                               !.before = doc_titles, !.idx = 1]]
            /\ pc' = [pc EXCEPT ![t] = "ingest_loop"]
            /\ last_resp' = NoResp
            /\ hist' = [hist EXCEPT !.store_raised = FALSE, !.dir_missing = FALSE,
                                    !.ing_files = dir.files,
                                    !.first = FirstSeen(@, build_chunks_from_docs(
                                                load_documents(dir.files), ChunkSize, ChunkOverlap))]
  /\ UNCHANGED <<settings, env, store, fallback_used, llm, llm_name, doc_titles, chunk_hashes,
                 chunk_count, ask_count, t_retrieval, t_generation, vecs, meta, store_hashes,
                 qdrant_points, rr>>

\* the head of the loop body: the next chunk is skipped when its hash is known
IngestCheck(t) ==
  /\ pc[t] = "ingest_loop"
  /\ IF loc[t].idx > Len(loc[t].chunks)
     THEN /\ pc' = [pc EXCEPT ![t] = "upsert"]
          /\ loc' = [loc EXCEPT ![t].j = 1]
     ELSE IF AlreadyIndexed(doc_hash(loc[t].chunks[loc[t].idx].text), chunk_hashes)
          THEN /\ loc' = [loc EXCEPT ![t].idx = @ + 1]
               /\ UNCHANGED pc
          ELSE /\ pc' = [pc EXCEPT ![t] = "ingest_add"]
               /\ UNCHANGED loc
  /\ UNCHANGED <<settings, env, store, fallback_used, llm, llm_name, doc_titles, chunk_hashes,
                 chunk_count, ask_count, t_retrieval, t_generation, vecs, meta, store_hashes,
                 qdrant_points, last_resp, nreq, hist, rr>>

\* the rest of the loop body up to the read of _chunk_count: the hash is
\* recorded, the chunk embedded and batched, its title recorded
IngestAdd(t) ==
  /\ pc[t] = "ingest_add"
  /\ LET ch == loc[t].chunks[loc[t].idx]
         h == doc_hash(ch.text)
     IN  /\ chunk_hashes' = chunk_hashes \cup {h}
         /\ doc_titles' = doc_titles \cup {ch.title}
         /\ loc' = [loc EXCEPT ![t].metas = Append(@, ChunkMeta(ch, h)), ![t].tmp = chunk_count]
         /\ hist' = [hist EXCEPT !.twice = IF h \in chunk_hashes THEN @ \cup {h} ELSE @]
  /\ pc' = [pc EXCEPT ![t] = "ingest_count"]
  /\ UNCHANGED <<settings, env, store, fallback_used, llm, llm_name, chunk_count, ask_count,
                 t_retrieval, t_generation, vecs, meta, store_hashes, qdrant_points,
                 last_resp, nreq, rr>>

\* a counter that is not advanced
ChunkCountKept(read) == read

\* the value written by self._chunk_count += 1
ChunkCountAfter(read) == read + 1

\* the write of self._chunk_count += 1
IngestCount(t) ==
  /\ pc[t] = "ingest_count"
  /\ chunk_count' = ChunkCountAfter(loc[t].tmp)
  /\ loc' = [loc EXCEPT ![t].idx = @ + 1]
  /\ pc' = [pc EXCEPT ![t] = "ingest_loop"]
  /\ UNCHANGED <<settings, env, store, fallback_used, llm, llm_name, doc_titles, chunk_hashes,
                 ask_count, t_retrieval, t_generation, vecs, meta, store_hashes,
                 qdrant_points, last_resp, nreq, hist, rr>>

\* `if vectors:` is false: nothing is upserted
IngestNoUpsert(t) ==
  /\ pc[t] = "upsert"
  /\ loc[t].metas = <<>>
  /\ pc' = [pc EXCEPT ![t] = "ingest_return"]
  /\ UNCHANGED <<settings, env, store, fallback_used, llm, llm_name, doc_titles, chunk_hashes,
                 chunk_count, ask_count, t_retrieval, t_generation, vecs, meta, store_hashes,
                 qdrant_points, loc, last_resp, nreq, hist, rr>>

\* InMemoryStore.upsert, one pass of its loop up to vecs.append
MemUpsertVec(t) ==
  /\ pc[t] = "upsert"
  /\ loc[t].metas # <<>>
  /\ store = "InMemoryStore"
  /\ IF loc[t].j > Len(loc[t].metas)
     THEN /\ pc' = [pc EXCEPT ![t] = "ingest_return"]
          /\ UNCHANGED <<vecs, loc>>
     ELSE IF loc[t].metas[loc[t].j].hash \in store_hashes
          THEN /\ loc' = [loc EXCEPT ![t].j = @ + 1]
               /\ UNCHANGED <<vecs, pc>>
          ELSE /\ vecs' = Append(vecs, embed(loc[t].metas[loc[t].j].text))
               /\ pc' = [pc EXCEPT ![t] = "upsert_meta"]
               /\ UNCHANGED loc
  /\ UNCHANGED <<settings, env, store, fallback_used, llm, llm_name, doc_titles, chunk_hashes,
                 chunk_count, ask_count, t_retrieval, t_generation, meta, store_hashes,
                 qdrant_points, last_resp, nreq, hist, rr>>

\* InMemoryStore.upsert, the rest of the pass: meta.append and _hashes.add
MemUpsertMeta(t) ==
  /\ pc[t] = "upsert_meta"
  /\ meta' = Append(meta, loc[t].metas[loc[t].j])
  /\ store_hashes' = store_hashes \cup {loc[t].metas[loc[t].j].hash}
  /\ loc' = [loc EXCEPT ![t].j = @ + 1]
  /\ pc' = [pc EXCEPT ![t] = "upsert"]
  /\ UNCHANGED <<settings, env, store, fallback_used, llm, llm_name, doc_titles, chunk_hashes,
                 chunk_count, ask_count, t_retrieval, t_generation, vecs, qdrant_points,
                 last_resp, nreq, hist, rr>>

\* QdrantStore.upsert, the request succeeds
QdrantUpsertOk(t) ==
  /\ pc[t] = "upsert"
  /\ loc[t].metas # <<>>
  /\ store = "QdrantStore"
  /\ qdrant_points' = QdrantUpserted(qdrant_points,
                        [i \in 1..Len(loc[t].metas) |-> embed(loc[t].metas[i].text)], loc[t].metas)
  /\ pc' = [pc EXCEPT ![t] = "ingest_return"]
  /\ UNCHANGED <<settings, env, store, fallback_used, llm, llm_name, doc_titles, chunk_hashes,
                 chunk_count, ask_count, t_retrieval, t_generation, vecs, meta, store_hashes,
                 loc, last_resp, nreq, hist, rr>>

\* an ingest that answers a failed upsert by switching to the local store
UpsertFallsBack(t) ==
  /\ store' = "InMemoryStore"
  /\ fallback_used' = TRUE
  /\ UNCHANGED <<vecs, meta, store_hashes, qdrant_points>>
  /\ last_resp' = [NoResp EXCEPT !.thread = t, !.op = "ingest", !.status = 200]
  /\ hist' = [IngestEnded(t, [raised |-> FALSE, docs |-> 0, chunks |-> 0]) EXCEPT !.store_raised = TRUE]

\* what ingest_chunks does when store.upsert raises: log and re-raise
UpsertRaised(t) ==
  /\ UNCHANGED <<store, fallback_used, vecs, meta, store_hashes, qdrant_points>>
  /\ last_resp' = ErrorResp(t, "ingest", 500)
  /\ hist' = [IngestEnded(t, [raised |-> TRUE, docs |-> 0, chunks |-> 0]) EXCEPT !.ingest_raised = @ + 1, !.store_raised = TRUE]

\* QdrantStore.upsert, the request fails: the exception leaves ingest_chunks
\* and post_ingest answers 500
QdrantUpsertFail(t) ==
  /\ pc[t] = "upsert"
  /\ loc[t].metas # <<>>
  /\ store = "QdrantStore"
  /\ UNCHANGED <<settings, env, llm, llm_name, doc_titles, chunk_hashes,
                 chunk_count, ask_count, t_retrieval, t_generation, nreq, rr>>
  /\ UpsertRaised(t)
  /\ pc' = [pc EXCEPT ![t] = "idle"]
  /\ loc' = [loc EXCEPT ![t] = NoLoc]

\* the return of ingest_chunks and the response of post_ingest
IngestReturn(t) ==
  /\ pc[t] = "ingest_return"
  /\ UNCHANGED <<settings, env, store, fallback_used, llm, llm_name, doc_titles, chunk_hashes,
                 chunk_count, ask_count, t_retrieval, t_generation, vecs, meta, store_hashes,
                 qdrant_points, nreq, rr>>
  /\ LET new_docs == Cardinality(doc_titles) - Cardinality(loc[t].before)
         new_chunks == Len(loc[t].metas)
     IN  /\ last_resp' = [NoResp EXCEPT !.thread = t, !.op = "ingest", !.status = 200,
                                        !.indexed_docs = new_docs, !.indexed_chunks = new_chunks]
         /\ hist' = [IngestEnded(t, [raised |-> FALSE, docs |-> new_docs, chunks |-> new_chunks]) EXCEPT
                       !.sum_docs = @ + new_docs, !.sum_chunks = @ + new_chunks,
                       !.store_raised = FALSE]
  /\ pc' = [pc EXCEPT ![t] = "idle"]
  /\ loc' = [loc EXCEPT ![t] = NoLoc]

\* ------------------------------------------------------- POST /api/ask

\* post_ask up to the call of engine.retrieve
AskStart(t, queries, ks) ==
  /\ Idle(t)
  /\ nreq < MaxRequests
  /\ nreq' = nreq + 1
  /\ \E q \in queries, k \in ks :
       loc' = [loc EXCEPT ![t] = [NoLoc EXCEPT !.query = q, !.k = KOrDefault(k)]]
  /\ pc' = [pc EXCEPT ![t] = "retrieve"]
  /\ last_resp' = NoResp
  /\ hist' = [hist EXCEPT !.store_raised = FALSE, !.dir_missing = FALSE]
  /\ UNCHANGED <<settings, env, store, fallback_used, llm, llm_name, doc_titles, chunk_hashes,
                 chunk_count, ask_count, t_retrieval, t_generation, vecs, meta, store_hashes,
                 qdrant_points, rr>>

\* a retrieve that swallows the failure of the search and goes on to the
\* generator without contexts
SearchSwallowed(t) ==
  /\ UNCHANGED <<store, fallback_used, t_retrieval, last_resp>>
  /\ hist' = [hist EXCEPT !.store_raised = TRUE]
  /\ pc' = [pc EXCEPT ![t] = "generate"]
  /\ loc' = [loc EXCEPT ![t].ctx = <<>>]

\* what retrieve and post_ask do when store.search raises: log and re-raise,
\* and the handler answers 500
SearchRaised(t) ==
  /\ UNCHANGED <<store, fallback_used, t_retrieval>>
  /\ last_resp' = ErrorResp(t, "ask", 500)
  /\ hist' = [hist EXCEPT !.store_raised = TRUE]
  /\ pc' = [pc EXCEPT ![t] = "idle"]
  /\ loc' = [loc EXCEPT ![t] = NoLoc]

\* engine.retrieve returns: the reranked candidates, one latency sample
Retrieved(t, candidates) ==
  /\ UNCHANGED <<store, fallback_used>>
  /\ loc' = [loc EXCEPT ![t].ctx = mmr_rerank(candidates, loc[t].k)]
  /\ \E ms \in Latencies : t_retrieval' = Append(t_retrieval, ms)
  /\ hist' = [hist EXCEPT !.store_raised = FALSE]
  /\ pc' = [pc EXCEPT ![t] = "generate"]
  /\ UNCHANGED last_resp

\* engine.retrieve on the local store
RetrieveMem(t) ==
  /\ pc[t] = "retrieve"
  /\ store = "InMemoryStore"
  /\ \E res \in MemSearch(vecs, meta, embed(loc[t].query), loc[t].k * 2) :
       IF res.raised THEN SearchRaised(t) ELSE Retrieved(t, res.results)
  /\ UNCHANGED <<settings, env, llm, llm_name, doc_titles, chunk_hashes, chunk_count,
                 ask_count, t_generation, vecs, meta, store_hashes, qdrant_points, nreq, rr>>

\* engine.retrieve on Qdrant, the search request succeeds
RetrieveQdrantOk(t) ==
  /\ pc[t] = "retrieve"
  /\ store = "QdrantStore"
  /\ loc[t].k * 2 >= 0
  /\ \E res \in QdrantSearch(qdrant_points, embed(loc[t].query), loc[t].k * 2) :
       Retrieved(t, res)
  /\ UNCHANGED <<settings, env, llm, llm_name, doc_titles, chunk_hashes, chunk_count,
                 ask_count, t_generation, vecs, meta, store_hashes, qdrant_points, nreq, rr>>

\* engine.retrieve on Qdrant, the search request fails (Qdrant is unreachable,
\* or it rejects the limit)
RetrieveQdrantFail(t) ==
  /\ pc[t] = "retrieve"
  /\ store = "QdrantStore"
  /\ SearchRaised(t)
  /\ UNCHANGED <<settings, env, llm, llm_name, doc_titles, chunk_hashes, chunk_count,
                 ask_count, t_generation, vecs, meta, store_hashes, qdrant_points, nreq, rr>>

\* engine.generate, llm.generate returns: the latency sample is recorded and
\* _ask_count is read for the increment
GenerateOk(t) ==
  /\ pc[t] = "generate"
  /\ \E api \in ApiOutcomes :
       /\ LlmGenerate(llm, api, loc[t].ctx) # "raise"
       /\ loc' = [loc EXCEPT ![t].answer = LlmGenerate(llm, api, loc[t].ctx),
                             ![t].tmp = ask_count, ![t].entry = ask_count]
       /\ hist' = [hist EXCEPT !.gen_calls = @ + 1, !.api_failed = ApiFailed(llm, api)]
  /\ \E ms \in Latencies : t_generation' = Append(t_generation, ms)
  /\ pc' = [pc EXCEPT ![t] = "count_ok"]
  /\ UNCHANGED <<settings, env, store, fallback_used, llm, llm_name, doc_titles, chunk_hashes,
                 chunk_count, ask_count, t_retrieval, vecs, meta, store_hashes,
                 qdrant_points, last_resp, nreq, rr>>

\* engine.generate, llm.generate raises: the except clause reads _ask_count
\* for the increment
GenerateRaise(t) ==
  /\ pc[t] = "generate"
  /\ \E api \in ApiOutcomes :
       /\ LlmGenerate(llm, api, loc[t].ctx) = "raise"
       /\ hist' = [hist EXCEPT !.gen_calls = @ + 1, !.api_failed = ApiFailed(llm, api)]
  /\ loc' = [loc EXCEPT ![t].answer = "raise", ![t].tmp = ask_count, ![t].entry = ask_count]
  /\ pc' = [pc EXCEPT ![t] = "count_raise"]
  /\ UNCHANGED <<settings, env, store, fallback_used, llm, llm_name, doc_titles, chunk_hashes,
                 chunk_count, ask_count, t_retrieval, t_generation, vecs, meta, store_hashes,
                 qdrant_points, last_resp, nreq, rr>>

\* the value written by self._ask_count += 1 after a successful generation
CountAfterAnswer(read) == read + 1

\* an except clause that leaves _ask_count as it was read
CountDropped(read) == read

\* the value written by self._ask_count += 1 in the except clause
CountAfterError(read) == read + 1

\* the history after a call of engine.generate ends
GenerateEnded(t, raised) ==
  [hist EXCEPT !.gen_before = loc[t].entry, !.gen_after = ask_count', !.gen_raised = raised]

\* engine.generate, the write of _ask_count and the return of the answer
GenerateCountOk(t) ==
  /\ pc[t] = "count_ok"
  /\ ask_count' = CountAfterAnswer(loc[t].tmp)
  /\ hist' = GenerateEnded(t, FALSE)
  /\ pc' = [pc EXCEPT ![t] = "respond"]
  /\ UNCHANGED <<settings, env, store, fallback_used, llm, llm_name, doc_titles, chunk_hashes,
                 chunk_count, t_retrieval, t_generation, vecs, meta, store_hashes,
                 qdrant_points, loc, last_resp, nreq, rr>>

\* engine.generate, the write of _ask_count in the except clause; the
\* exception leaves engine.generate and post_ask answers 500
GenerateCountRaise(t) ==
  /\ pc[t] = "count_raise"
  /\ ask_count' = CountAfterError(loc[t].tmp)
  /\ hist' = GenerateEnded(t, TRUE)
  /\ last_resp' = ErrorResp(t, "ask", 500)
  /\ pc' = [pc EXCEPT ![t] = "idle"]
  /\ loc' = [loc EXCEPT ![t] = NoLoc]
  /\ UNCHANGED <<settings, env, store, fallback_used, llm, llm_name, doc_titles, chunk_hashes,
                 chunk_count, t_retrieval, t_generation, vecs, meta, store_hashes,
                 qdrant_points, nreq, rr>>

\* the citations of an Ask response
Citations(ctx) ==
  [i \in 1..Len(ctx) |-> [title |-> Get(ctx[i], "title", None), section |-> Get(ctx[i], "section", None)]]

\* the chunks of an Ask response
Chunks(ctx) ==
  [i \in 1..Len(ctx) |-> [title |-> Get(ctx[i], "title", None), section |-> Get(ctx[i], "section", None),
                          text |-> Get(ctx[i], "text", None)]]

\* the rest of post_ask: citations, chunks, the stats snapshot, the response
AskRespond(t) ==
  /\ pc[t] = "respond"
  /\ last_resp' = [NoResp EXCEPT !.thread = t, !.op = "ask", !.status = 200,
                                 !.citations = Citations(loc[t].ctx),
                                 !.chunks = Chunks(loc[t].ctx), !.metrics = stats]
  /\ pc' = [pc EXCEPT ![t] = "idle"]
  /\ loc' = [loc EXCEPT ![t] = NoLoc]
  /\ UNCHANGED <<settings, env, store, fallback_used, llm, llm_name, doc_titles, chunk_hashes,
                 chunk_count, ask_count, t_retrieval, t_generation, vecs, meta, store_hashes,
                 qdrant_points, nreq, hist, rr>>

\* ------------------------------------------------------- GET /api/metrics

GetMetrics(t) ==
  /\ Idle(t)
  /\ nreq < MaxRequests
  /\ nreq' = nreq + 1
  /\ last_resp' = [NoResp EXCEPT !.thread = t, !.op = "metrics", !.status = 200, !.metrics = stats]
  /\ hist' = [hist EXCEPT !.store_raised = FALSE, !.dir_missing = FALSE]
  /\ UNCHANGED <<settings, env, store, fallback_used, llm, llm_name, doc_titles, chunk_hashes,
                 chunk_count, ask_count, t_retrieval, t_generation, vecs, meta, store_hashes,
                 qdrant_points, pc, loc, rr>>

\* ------------------------------------------------------- specifications

\* requests served concurrently: the handlers are plain functions, which the
\* server runs on the threads of its pool. The concurrent specification takes
\* one request per thread of the pool in all, over one data directory that
\* exists, one query, and two engines: the local store with a networked
\* generator, and Qdrant with the stub
ThreadDirs == {d \in DataDirs : ~d.exists \/ d.files = {GuideFile, ReturnsFile, LogoFile}}

ThreadQueries == { <<"days">> }

ThreadKs == {k \in AskKs : ~k.given \/ k.value = 1}

ThreadConfigs ==
  {c \in Configs : \/ c[1].vector_store = "memory" /\ c[1].llm_provider = "ollama" /\ c[2].llm_init = "ok"
                   \/ c[1].vector_store = "qdrant" /\ c[1].llm_provider = "stub" /\ c[2].qdrant = "exists"}

InitThreads ==
  /\ \E c \in ThreadConfigs : Constructed(c[1], c[2])
  /\ rr = RrOff

ThreadIngestStart(t) == nreq < NumThreads /\ IngestStart(t, ThreadDirs)

ThreadAskStart(t) == nreq < NumThreads /\ AskStart(t, ThreadQueries, ThreadKs)

ThreadGetMetrics(t) == nreq < NumThreads /\ GetMetrics(t)

NextThreads ==
  \E t \in Threads :
    \/ ThreadIngestStart(t) \/ IngestCheck(t) \/ IngestAdd(t) \/ IngestCount(t)
    \/ IngestNoUpsert(t) \/ MemUpsertVec(t) \/ MemUpsertMeta(t)
    \/ QdrantUpsertOk(t) \/ QdrantUpsertFail(t) \/ IngestReturn(t)
    \/ ThreadAskStart(t) \/ RetrieveMem(t) \/ RetrieveQdrantOk(t) \/ RetrieveQdrantFail(t)
    \/ GenerateOk(t) \/ GenerateRaise(t) \/ GenerateCountOk(t) \/ GenerateCountRaise(t)
    \/ AskRespond(t) \/ ThreadGetMetrics(t)

\* requests served one at a time, all by the first thread of the pool: a
\* request is taken only when no handler runs
SerialIngestStart(t) == AllIdle /\ IngestStart(t, DataDirs)

SerialAskStart(t) == AllIdle /\ AskStart(t, Queries, AskKs)

SerialGetMetrics(t) == AllIdle /\ GetMetrics(t)

Next ==
  \E t \in {1} :
    \/ SerialIngestStart(t) \/ IngestCheck(t) \/ IngestAdd(t) \/ IngestCount(t)
    \/ IngestNoUpsert(t) \/ MemUpsertVec(t) \/ MemUpsertMeta(t)
    \/ QdrantUpsertOk(t) \/ QdrantUpsertFail(t) \/ IngestReturn(t)
    \/ SerialAskStart(t) \/ RetrieveMem(t) \/ RetrieveQdrantOk(t) \/ RetrieveQdrantFail(t)
    \/ GenerateOk(t) \/ GenerateRaise(t) \/ GenerateCountOk(t) \/ GenerateCountRaise(t)
    \/ AskRespond(t) \/ SerialGetMetrics(t)

Spec == Init /\ [][Next]_vars

SpecThreads == InitThreads /\ [][NextThreads]_vars

\* ------------------------------------------------------- the reranker alone

\* metadata of the candidates: an untagged chunk (no heading_level, no
\* section_priority), a chunk tagged H1 and high, a second chunk of the
\* untagged one's section, and a chunk of another document tagged H2 and medium
RerankMetas ==
  { [title |-> "A.md", section |-> "Body", text |-> "a"],
    [title |-> "A.md", section |-> "Policy", text |-> "b", heading_level |-> 1,
     section_priority |-> "high"],
    [title |-> "A.md", section |-> "Body", text |-> "c", heading_level |-> 0,
     section_priority |-> "low"],
    [title |-> "B.md", section |-> "Notes", text |-> "d", heading_level |-> 2,
     section_priority |-> "medium"],
    [title |-> "A.md", section |-> "Body", text |-> "e", heading_level |-> 3,
     section_priority |-> "low"] }

\* raw similarities, in hundredths
RerankScores == {30, 60}

\* the candidate lists a store search returns: distinct records, by
\* non-increasing similarity
RerankInputs ==
  UNION { { c \in [1..n -> [score : RerankScores, meta : RerankMetas]] :
              /\ \A i, j \in 1..n : i < j => c[i].score >= c[j].score
              /\ \A i, j \in 1..n : i # j => c[i].meta # c[j].meta }
          : n \in 0..MaxCands }

RerankKs == -1..MaxCands

InitRerank ==
  /\ \E c \in Configs :
       /\ c[1].vector_store = "memory"
       /\ c[1].llm_provider = "stub"
       /\ Constructed(c[1], c[2])
  /\ \E c \in RerankInputs, k \in RerankKs :
       rr = [pc |-> "ready", candidates |-> c, k |-> k, out |-> <<>>]

\* one call of _mmr_rerank
RerankCall ==
  /\ rr.pc = "ready"
  /\ rr' = [rr EXCEPT !.pc = "done", !.out = mmr_rerank(rr.candidates, rr.k)]
  /\ UNCHANGED engine_vars

NextRerank == RerankCall

SpecRerank == InitRerank /\ [][NextRerank]_vars

\* ------------------------------------------------------- properties

\* a call of engine.generate has read _ask_count and not yet written it
GenerateInFlight == \E t \in Threads : pc[t] \in {"count_ok", "count_raise"}

\* engine.retrieve has returned to the handler running on thread t
HasRetrieved(t) == pc[t] \in {"generate", "count_ok", "count_raise", "respond"}

GuideTitle == FileName(GuideFile)

\* C1: when ingest_chunks is called with the chunk list of the call before
\* it, the second call returns (0, 0) and leaves the dedup set, the title set,
\* the chunk counter and the contents of the store as the first call left them
IngestIdempotent ==
  hist.ing_repeat =>
    /\ hist.ing_result = [raised |-> FALSE, docs |-> 0, chunks |-> 0]
    /\ hist.ing_same

\* a second ingest of the same non-empty chunk list has returned
IngestIdempotentWitness ==
  /\ AllIdle
  /\ hist.ing_repeat
  /\ hist.ing_chunks # <<>>
  /\ chunk_count > 0
  /\ last_resp.op = "ingest"

\* C2: every call of engine.generate leaves _ask_count one above the value it
\* found, whether the generator answered or raised, so that _ask_count is the
\* number of calls made
AskCountPerCall ==
  ~GenerateInFlight =>
    /\ ask_count = hist.gen_calls
    /\ hist.gen_calls > 0 => hist.gen_after = hist.gen_before + 1

\* two calls have been made, one answered and the last one raised
AskCountPerCallWitness ==
  /\ AllIdle
  /\ hist.gen_calls = 2
  /\ hist.gen_raised
  /\ t_generation # <<>>
  /\ ask_count = 2

\* C3: once concurrent ingest calls have all returned, total_chunks is the
\* number of distinct hashes ingested, no chunk was embedded and batched for
\* the store twice, and the returned indexed_chunks sum to that number
ConcurrentIngestExclusive ==
  (AllIdle /\ hist.ingest_raised = 0) =>
    /\ stats.total_chunks = Cardinality(chunk_hashes)
    /\ hist.twice = {}
    /\ hist.sum_chunks = Cardinality(chunk_hashes)

\* C4: once concurrent calls of engine.generate have all completed,
\* _ask_count has grown by the number of calls
ConcurrentAskCounted == AllIdle => stats.ask_count = hist.gen_calls

\* C5: an engine configured for Qdrant whose QdrantStore constructor raised
\* runs on InMemoryStore and reports fallback_used = true; an engine whose
\* QdrantStore was constructed, or that is configured for the local store,
\* reports fallback_used = false
FallbackAtConstruction ==
  /\ (settings.vector_store = "qdrant" /\ QdrantStoreInit(env) = "raise") =>
       (store = "InMemoryStore" /\ stats.fallback_used)
  /\ (settings.vector_store = "qdrant" /\ QdrantStoreInit(env) = "ok") =>
       (store = "QdrantStore" /\ ~stats.fallback_used)
  /\ (settings.vector_store = "memory") => (store = "InMemoryStore" /\ ~stats.fallback_used)
  /\ (last_resp.status = 200 /\ last_resp.op \in {"ask", "metrics"}) =>
       (last_resp.metrics.fallback_used <=>
          (settings.vector_store = "qdrant" /\ QdrantStoreInit(env) = "raise"))

\* the metrics of an engine whose Qdrant was down at construction have been
\* served
FallbackAtConstructionWitness ==
  /\ settings.vector_store = "qdrant"
  /\ env.qdrant = "down"
  /\ store = "InMemoryStore"
  /\ last_resp.op = "metrics"
  /\ last_resp.metrics.fallback_used

\* C6: no step after construction changes the store in use or the
\* fallback_used flag, and a request in which the store failed has been
\* answered with an error by the store it started on
FallbackDecidedOnce ==
  /\ [][store' = store /\ fallback_used' = fallback_used]_vars
  /\ [](hist.store_raised => (last_resp.status = 500 /\ last_resp.op \in {"ingest", "ask"}))

\* an upsert into Qdrant has failed during an Ingest request
FallbackDecidedOnceWitness ==
  /\ store = "QdrantStore"
  /\ ~fallback_used
  /\ hist.store_raised
  /\ last_resp.op = "ingest"
  /\ last_resp.status = 500

\* C7: the chunks built from load_documents never carry the title of the
\* reserved guide, and neither do the titles indexed nor the citations and
\* chunks of an Ask response
GuideNeverCited ==
  /\ \A t \in Threads : \A i \in 1..Len(loc[t].chunks) : loc[t].chunks[i].title # GuideTitle
  /\ GuideTitle \notin doc_titles
  /\ \A i \in 1..Len(last_resp.citations) : last_resp.citations[i].title # GuideTitle
  /\ \A i \in 1..Len(last_resp.chunks) : last_resp.chunks[i].title # GuideTitle

\* an Ask response cites chunks after the ingest of a directory that holds
\* the guide
GuideNeverCitedWitness ==
  /\ last_resp.op = "ask"
  /\ last_resp.status = 200
  /\ last_resp.citations # <<>>
  /\ last_resp.chunks # <<>>
  /\ \A d \in DataDirs : d.files # {} => GuideFile \in d.files

\* C8: after sequential ingest calls the returned indexed_docs sum to
\* total_docs and the returned indexed_chunks sum to total_chunks
IngestCountsSumToTotals ==
  AllIdle => (hist.sum_docs = stats.total_docs /\ hist.sum_chunks = stats.total_chunks)

\* C9: the list engine.retrieve returns for k has at most k items
RetrieveAtMostK == \A t \in Threads : HasRetrieved(t) => Len(loc[t].ctx) <= loc[t].k

\* C10: when k < |candidates|, the item _mmr_rerank returns first is a
\* candidate of the highest boosted score
SeedIsHighestBoosted ==
  (rr.pc = "done" /\ rr.k < Len(rr.candidates)) =>
    \E i \in 1..Len(rr.candidates) :
      /\ rr.candidates[i].meta = rr.out[1]
      /\ \A j \in 1..Len(rr.candidates) :
           BoostedScore(rr.candidates[i].score, rr.candidates[i].meta)
             >= BoostedScore(rr.candidates[j].score, rr.candidates[j].meta)

\* ------------------------------------------------------- the local store alone

\* the records given to the store: two chunks, the text of the first under
\* another title (the same content hash), and a record without a hash
StoreRecords ==
  { [hash |-> doc_hash(<<"14", " ", "days">>), title |-> "A.md", text |-> <<"14", " ", "days">>],
    [hash |-> doc_hash(<<"14", " ", "days">>), title |-> "B.md", text |-> <<"14", " ", "days">>],
    [hash |-> doc_hash(<<"see", " ", "terms">>), title |-> "A.md", text |-> <<"see", " ", "terms">>],
    [title |-> "A.md", text |-> <<"2", " ", "days">>] }

\* the metadata lists of upsert calls; the vector of a record embeds its text
StoreBatches == UNION { [1..n -> StoreRecords] : n \in 1..MaxBatch }

StoreQueries == { <<"days">>, <<"see", " ", "terms">> }

StoreKs == -1..3

StoreOff == [op |-> "none", known |-> FALSE, same |-> FALSE, query |-> <<>>, k |-> 0, out |-> <<>>]

InitStore ==
  /\ \E c \in Configs :
       /\ c[1].vector_store = "memory"
       /\ c[1].llm_provider = "stub"
       /\ Constructed(c[1], c[2])
  /\ rr = StoreOff

\* one call of InMemoryStore.upsert
StoreUpsert ==
  /\ nreq < MaxRequests
  /\ nreq' = nreq + 1
  /\ \E metadatas \in StoreBatches :
       LET vectors == [i \in 1..Len(metadatas) |-> embed(metadatas[i].text)]
           st == MemUpsert([vecs |-> vecs, meta |-> meta, hashes |-> store_hashes],
                           vectors, metadatas)
       IN  /\ vecs' = st.vecs
           /\ meta' = st.meta
           /\ store_hashes' = st.hashes
           /\ rr' = [StoreOff EXCEPT !.op = "upsert",
                       !.known = \A i \in 1..Len(metadatas) :
                                   HasHash(metadatas[i]) /\ metadatas[i].hash \in store_hashes,
                       !.same = (st.vecs = vecs /\ st.meta = meta)]
  /\ UNCHANGED <<settings, env, store, fallback_used, llm, llm_name, doc_titles, chunk_hashes,
                 chunk_count, ask_count, t_retrieval, t_generation, qdrant_points, pc, loc,
                 last_resp, hist>>

\* one call of InMemoryStore.search
StoreSearch ==
  /\ nreq < MaxRequests
  /\ nreq' = nreq + 1
  /\ \E q \in StoreQueries, k \in StoreKs :
       \E res \in MemSearch(vecs, meta, embed(q), k) :
         /\ ~res.raised
         /\ rr' = [StoreOff EXCEPT !.op = "search", !.query = embed(q), !.k = k,
                                   !.out = res.results]
  /\ UNCHANGED <<settings, env, store, fallback_used, llm, llm_name, doc_titles, chunk_hashes,
                 chunk_count, ask_count, t_retrieval, t_generation, vecs, meta, store_hashes,
                 qdrant_points, pc, loc, last_resp, hist>>

NextStore == StoreUpsert \/ StoreSearch

SpecStore == InitStore /\ [][NextStore]_vars

\* C11: the local store holds one vector per metadata record, the vector of
\* that record, and at most one record per hash; an upsert of records whose
\* hashes are all stored leaves vecs and meta as they were
UpsertKeyedByHash ==
  /\ Len(vecs) = Len(meta)
  /\ \A i \in 1..Len(meta) : vecs[i] = embed(meta[i].text)
  /\ \A i, j \in 1..Len(meta) :
       (i # j /\ HasHash(meta[i]) /\ HasHash(meta[j])) => meta[i].hash # meta[j].hash
  /\ store_hashes = {meta[i].hash : i \in {n \in 1..Len(meta) : HasHash(meta[n])}}
  /\ (rr.op = "upsert" /\ rr.known) => rr.same

\* records of a stored hash have been upserted again, one under another title
UpsertKeyedByHashWitness ==
  /\ rr.op = "upsert"
  /\ rr.known
  /\ Len(meta) >= 2
  /\ \E i \in 1..Len(meta) : HasHash(meta[i]) /\ meta[i].title = "B.md"

ChunkAtoms == {"a", "b", " "}

\* every text of at most MaxTextLen atoms
ChunkTexts == UNION { [1..n -> ChunkAtoms] : n \in 0..MaxTextLen }

InitChunk ==
  /\ \E c \in Configs :
       /\ c[1].vector_store = "memory"
       /\ c[1].llm_provider = "stub"
       /\ Constructed(c[1], c[2])
  /\ \E text \in ChunkTexts, chunk_size \in 1..MaxChunkSize :
       \E overlap \in 0..(chunk_size - 1) :
         rr = [pc |-> "ready", text |-> text, chunk_size |-> chunk_size, overlap |-> overlap,
               out |-> <<>>]

\* one call of chunk_text
ChunkCall ==
  /\ rr.pc = "ready"
  /\ rr' = [rr EXCEPT !.pc = "done", !.out = chunk_text(rr.text, rr.chunk_size, rr.overlap)]
  /\ UNCHANGED engine_vars

NextChunk == ChunkCall

SpecChunk == InitChunk /\ [][NextChunk]_vars

\* the tokens of the chunks in order, without the first `overlap` tokens of
\* every chunk after the first
RECURSIVE Reassembled(_, _, _)
Reassembled(chunks, overlap, n) ==
  IF n > Len(chunks) THEN <<>>
  ELSE LET toks == Split(chunks[n])
       IN  (IF n = 1 THEN toks ELSE SubSeq(toks, overlap + 1, Len(toks)))
             \o Reassembled(chunks, overlap, n + 1)

\* C13: for 0 <= overlap < chunk_size every token of the text is in a chunk of
\* chunk_text, the chunks without their leading overlap tokens give the tokens
\* back in order, and a text without tokens gives no chunk
ChunksCoverTokens ==
  rr.pc = "done" =>
    LET tokens == Split(rr.text)
    IN  /\ \A n \in 1..Len(tokens) :
             \E c \in 1..Len(rr.out) : \E m \in 1..Len(Split(rr.out[c])) : Split(rr.out[c])[m] = tokens[n]
        /\ Reassembled(rr.out, rr.overlap, 1) = tokens
        /\ \A c \in 1..Len(rr.out) : Len(Split(rr.out[c])) \in 1..rr.chunk_size
        /\ (tokens = <<>>) => (rr.out = <<>>)

\* a text of three tokens has been cut into overlapping chunks
ChunksCoverTokensWitness ==
  /\ rr.pc = "done"
  /\ Len(Split(rr.text)) = 3
  /\ rr.chunk_size = 2
  /\ rr.overlap = 1
  /\ Len(rr.out) = 2

\* C14: the generator is invoked once per call of engine.generate; when the
\* request of a networked generator fails the call raises, and the Ask
\* request is answered with an error, never with an answer
GeneratorFailureSurfaces ==
  /\ AllIdle => hist.gen_calls = Len(t_retrieval)
  /\ ~GenerateInFlight => (hist.api_failed <=> hist.gen_raised)
  /\ \A t \in Threads : pc[t] = "respond" => (~hist.api_failed /\ loc[t].answer = "answer")
  /\ (AllIdle /\ hist.gen_raised /\ last_resp.op = "ask") => last_resp.status = 500

\* the request of a networked generator has failed, after a call that was
\* answered
GeneratorFailureSurfacesWitness ==
  /\ AllIdle
  /\ llm # "StubLLM"
  /\ hist.api_failed
  /\ hist.gen_calls = 2
  /\ Len(t_generation) = 1
  /\ last_resp = ErrorResp(1, "ask", 500)

\* ------------------------------------------------------- construction alone

\* an engine constructed under any settings and any condition of the
\* backends, and asked for its metrics
InitConstruct ==
  /\ \E s \in Settings, e \in Envs : Constructed(s, e)
  /\ rr = RrOff

NextConstruct == \E t \in {1} : SerialGetMetrics(t)

SpecConstruct == InitConstruct /\ [][NextConstruct]_vars

\* the constructor of the configured networked generator raised
LlmInitFailed ==
  /\ \/ settings.llm_provider = "openai" /\ settings.openai_api_key # None
     \/ settings.llm_provider = "ollama"
  /\ env.llm_init = "raise"

\* C15: when the configured generator fails to initialise the engine runs on
\* StubLLM and reports llm_model "stub"; llm_model always names the generator
\* in use, and fallback_used is set by the vector store fallback alone
StubSubstituted ==
  /\ LlmInitFailed => (llm = "StubLLM" /\ stats.llm_model = "stub")
  /\ stats.llm_model = "stub" <=> llm = "StubLLM"
  /\ stats.llm_model = "openai:gpt-4o-mini" <=> llm = "OpenAILLM"
  /\ stats.llm_model = "ollama:model" <=> llm = "OllamaLLM"
  /\ stats.fallback_used <=> (settings.vector_store = "qdrant" /\ QdrantStoreInit(env) = "raise")
  /\ last_resp.op = "metrics" =>
       /\ last_resp.status = 200
       /\ last_resp.metrics.llm_model = stats.llm_model
       /\ last_resp.metrics.fallback_used = stats.fallback_used

\* the metrics of an engine on a reachable Qdrant whose generator failed to
\* initialise have been served
StubSubstitutedWitness ==
  /\ LlmInitFailed
  /\ store = "QdrantStore"
  /\ last_resp.op = "metrics"
  /\ last_resp.metrics.llm_model = "stub"
  /\ ~last_resp.metrics.fallback_used

\* C16: an Ingest request that finds the data directory missing is answered
\* 404 with a detail that starts "Data directory", which no other error
\* response carries, and it leaves the dedup set, the title set, the chunk
\* counter and the stores as they were
MissingDirNotFound ==
  /\ [](hist.dir_missing =>
          (last_resp = MissingDirResp(last_resp.thread) /\ last_resp.status = 404 /\
           last_resp.detail = "Data directory not found"))
  /\ []((last_resp.status # 0 /\ ~hist.dir_missing) =>
          (last_resp.status # 404 /\ last_resp.detail # "Data directory not found"))
  /\ [][hist'.dir_missing => IngestState' = IngestState]_vars

\* the directory has gone missing after an ingest that indexed chunks
MissingDirNotFoundWitness ==
  /\ AllIdle
  /\ hist.dir_missing
  /\ chunk_count > 0
  /\ last_resp.status = 404

\* the files of a listing that load_documents processes to the end
Processed(files) == {f \in files : ~IsAgentGuide(f) /\ HasDocExtension(f) /\ f.readable}

\* the place of the file of a title in the sorted listing
FileRank(title) == CHOOSE n \in 1..Len(SortedFiles) : FileName(SortedFiles[n]) = title

\* an ingest call is running on thread t
Ingesting(t) == pc[t] \in {"ingest_loop", "ingest_add", "ingest_count", "upsert", "upsert_meta",
                           "ingest_return"}

\* C17: a file that cannot be read contributes nothing: the chunks built for
\* an Ingest request are those of the directory without that file, in
\* sorted file-name order, and the titles and counts of the ingest are those
\* of the files processed
UnreadableFileSkipped ==
  /\ \A t \in Threads : Ingesting(t) =>
       /\ loc[t].chunks = build_chunks_from_docs(load_documents(Processed(hist.ing_files)),
                                                 ChunkSize, ChunkOverlap)
       /\ \A i \in 1..Len(loc[t].chunks) :
            loc[t].chunks[i].title \in {FileName(f) : f \in Processed(hist.ing_files)}
       /\ \A i, j \in 1..Len(loc[t].chunks) :
            i < j => FileRank(loc[t].chunks[i].title) <= FileRank(loc[t].chunks[j].title)
  /\ \A f \in UNION {d.files : d \in DataDirs} : ~f.readable => FileName(f) \notin doc_titles
  /\ (last_resp.op = "ingest" /\ last_resp.status = 200) =>
       /\ last_resp.indexed_docs <= Cardinality(Processed(hist.ing_files))
       /\ (hist.sum_docs = last_resp.indexed_docs /\ hist.ingest_raised = 0) =>
            last_resp.indexed_docs = Cardinality(Processed(hist.ing_files))

\* the first ingest, of a directory with a file that cannot be read, has
\* indexed the one file processed
UnreadableFileSkippedWitness ==
  /\ AllIdle
  /\ BrokenFile \in hist.ing_files
  /\ last_resp.op = "ingest"
  /\ last_resp.indexed_docs = 1
  /\ last_resp.indexed_chunks = 3
  /\ hist.sum_docs = 1

\* s is kept, in place and in order, at the front of s2
IsPrefixOf(s, s2) == Len(s) <= Len(s2) /\ SubSeq(s2, 1, Len(s)) = s

\* C18: the latency samples are append-only: a new engine has none and
\* averages 0.0, every step keeps the samples there are, a retrieve that
\* returns appends one retrieval sample and nothing else does, and every
\* answer call, returning or raising, appends one generation sample
LatencySamplesAppendOnly ==
  /\ (t_retrieval = <<>> /\ t_generation = <<>>
      /\ stats.avg_retrieval_latency_ms = 0 /\ stats.avg_generation_latency_ms = 0)
  /\ [][ /\ IsPrefixOf(t_retrieval, t_retrieval')
         /\ IsPrefixOf(t_generation, t_generation')
         /\ Len(t_retrieval') = Len(t_retrieval)
              + (IF \E t \in Threads : pc[t] = "retrieve" /\ pc'[t] = "generate" THEN 1 ELSE 0)
         /\ Len(t_generation') = Len(t_generation) + (hist'.gen_calls - hist.gen_calls) ]_vars

\* ---------------------------------------------------------------------
\* StubLLM.generate alone: texts are sequences of characters, the output is
\* one text with "\n" between its lines
\* ---------------------------------------------------------------------

\* joined[:600]
DetailsLimit == 600

\* a text of n characters
Chars(n) == [i \in 1..n |-> "x"]

\* c.get(key), None when the key is missing
DictGet(c, key) == IF key \in DOMAIN c THEN c[key] ELSE <<"None">>

\* sep.join(parts)
RECURSIVE JoinWith(_, _)
JoinWith(parts, sep) ==
  IF parts = <<>> THEN <<>>
  ELSE IF Len(parts) = 1 THEN parts[1]
  ELSE parts[1] \o sep \o JoinWith(Tail(parts), sep)

\* text.split(sep) for a one-character sep
RECURSIVE SplitLines(_, _)
SplitLines(text, sep) ==
  IF \A i \in 1..Len(text) : text[i] # sep THEN <<text>>
  ELSE LET i == CHOOSE n \in 1..Len(text) : text[n] = sep /\ \A m \in 1..(n - 1) : text[m] # sep
       IN  <<SubSeq(text, 1, i - 1)>> \o SplitLines(SubSeq(text, i + 1, Len(text)), sep)

\* f"- {c.get('title')} <em dash> {sec}" with sec = c.get("section") or
\* "Section"; the em dash is written "--"
SourceLine(c) ==
  LET sec == IF "section" \in DOMAIN c /\ c.section # <<>> THEN c.section ELSE <<"Section">>
  IN  <<"- ">> \o DictGet(c, "title") \o <<" -- ">> \o sec

\* a Details part that is never cut
StubDetailsWhole(joined) == joined

\* joined[:600] + ("..." if len(joined) > 600 else "")
StubDetails(joined) ==
  PySliceTo(joined, DetailsLimit) \o (IF Len(joined) > DetailsLimit THEN <<".", ".", ".">> ELSE <<>>)

\* " ".join([c.get("text", "") for c in contexts])
StubJoined(contexts) ==
  JoinWith([i \in 1..Len(contexts) |->
              IF "text" \in DOMAIN contexts[i] THEN contexts[i].text ELSE <<>>], <<" ">>)

\* StubLLM.generate(query, contexts)
StubLLMGenerate(query, contexts) ==
  JoinWith(<< <<"Answer (stub):">>,
              <<"Based on the policy documents below, here is a summary answer">>,
              <<>>,
              <<"Sources:">> >>
           \o [i \in 1..Len(contexts) |-> SourceLine(contexts[i])]
           \o << <<>>, <<"Details:">>, StubDetails(StubJoined(contexts)) >>,
           <<"\n">>)

\* lengths of context texts around the limit
StubTextLens == {0, 1, DetailsLimit \div 2 - 1, DetailsLimit \div 2, DetailsLimit + 1}

\* contexts as retrieve returns them, and dictionaries lacking a section, a
\* title or a text
StubContexts ==
  [title : {<<"Returns.md">>}, section : {<<"Refund Policy">>, <<>>},
   text : {Chars(n) : n \in StubTextLens}]
  \cup [title : {<<"Shipping.md">>}, text : {Chars(n) : n \in StubTextLens}]
  \cup [section : {<<"Body">>}, text : {Chars(1)}]
  \cup [title : {<<"Shipping.md">>}, section : {<<"Delivery">>}]

\* the context lists of a call: none, one or two contexts
StubContextLists ==
  {<<>>} \cup {<<c>> : c \in StubContexts} \cup {<<c, d>> : c \in StubContexts, d \in StubContexts}

InitStub ==
  /\ \E c \in Configs :
       /\ c[1].vector_store = "memory"
       /\ c[1].llm_provider = "stub"
       /\ Constructed(c[1], c[2])
  /\ \E query \in Queries, contexts \in StubContextLists :
       rr = [pc |-> "ready", query |-> query, contexts |-> contexts, out |-> <<>>]

\* one call of StubLLM.generate
StubCall ==
  /\ rr.pc = "ready"
  /\ rr' = [rr EXCEPT !.pc = "done", !.out = StubLLMGenerate(rr.query, rr.contexts)]
  /\ UNCHANGED engine_vars

NextStub == StubCall

SpecStub == InitStub /\ [][NextStub]_vars

\* C19: the output of StubLLM.generate has the lines of the template: the
\* answer part, "Sources:" followed by one line per context, in context
\* order, with the title and the section of the context, and "Details:"
\* followed by the texts joined with a space, whole when they have at most
\* 600 characters and otherwise cut to 600 characters plus "..."; the output
\* is the same for every query
StubFollowsTemplate ==
  rr.pc = "done" =>
    LET lines == SplitLines(rr.out, "\n")
        n == Len(rr.contexts)
        texts == [i \in 1..n |-> IF "text" \in DOMAIN rr.contexts[i]
                                 THEN rr.contexts[i].text ELSE <<>>]
        total == SumSeq([i \in 1..n |-> Len(texts[i])]) + (IF n > 1 THEN n - 1 ELSE 0)
        details == lines[n + 7]
    IN  /\ Len(lines) = n + 7
        /\ lines[1] = <<"Answer (stub):">>
        /\ lines[2] # <<>>
        /\ lines[3] = <<>>
        /\ lines[4] = <<"Sources:">>
        /\ \A i \in 1..n :
             LET c == rr.contexts[i]
             IN  /\ lines[4 + i][1] = "- "
                 /\ "title" \in DOMAIN c => SubSeq(lines[4 + i], 2, 1 + Len(c.title)) = c.title
                 /\ ("section" \in DOMAIN c /\ c.section # <<>>) =>
                      SubSeq(lines[4 + i], Len(lines[4 + i]) - Len(c.section) + 1,
                             Len(lines[4 + i])) = c.section
        /\ lines[n + 5] = <<>>
        /\ lines[n + 6] = <<"Details:">>
        /\ Len(details) = IF total > 600 THEN 603 ELSE total
        /\ \A i \in 1..Min(total, 600) :
             details[i] = IF n = 2 /\ i = Len(texts[1]) + 1 THEN " " ELSE "x"
        /\ total > 600 => SubSeq(details, 601, 603) = <<".", ".", ".">>
        /\ \A q \in Queries : StubLLMGenerate(q, rr.contexts) = rr.out

\* two contexts whose joined texts are one character over the limit
StubFollowsTemplateWitness ==
  /\ rr.pc = "done"
  /\ Len(rr.contexts) = 2
  /\ \A i \in 1..2 : "text" \in DOMAIN rr.contexts[i] /\ Len(rr.contexts[i].text) = 300
  /\ Len(SplitLines(rr.out, "\n")[9]) = 603

\* ---------------------------------------------------------------------
\* _detect_section_priority alone
\* ---------------------------------------------------------------------

\* words of headings, in the cases they are written in, each with the class
\* of the keyword it holds ("Island" holds "sla")
HeadingWords ==
  { [chars |-> <<"D", "e", "l", "i", "v", "e", "r", "y">>, class |-> "medium"],
    [chars |-> <<"P", "O", "L", "I", "C", "Y">>, class |-> "high"],
    [chars |-> <<"I", "s", "l", "a", "n", "d">>, class |-> "high"],
    [chars |-> <<"N", "o", "t", "e", "s">>, class |-> "low"],
    [chars |-> <<"G", "u", "i", "d", "e">>, class |-> "medium"],
    [chars |-> <<"r", "e", "f", "u", "n", "d">>, class |-> "high"],
    [chars |-> <<"C", "u", "t", "-", "O", "f", "f">>, class |-> "medium"],
    [chars |-> <<"B", "o", "d", "y">>, class |-> "low"] }

\* the headings of a call: empty, one word, or two words with a space
HeadingWordLists ==
  {<<>>} \cup {<<w>> : w \in HeadingWords} \cup {<<w, v>> : w \in HeadingWords, v \in HeadingWords}

\* the heading made of the words
HeadingOf(ws) == JoinWith([i \in 1..Len(ws) |-> ws[i].chars], <<" ">>)

InitPriority ==
  /\ \E c \in Configs :
       /\ c[1].vector_store = "memory"
       /\ c[1].llm_provider = "stub"
       /\ Constructed(c[1], c[2])
  /\ \E ws \in HeadingWordLists :
       rr = [pc |-> "ready", words |-> ws, section_title |-> HeadingOf(ws), out |-> ""]

\* one call of _detect_section_priority
PriorityCall ==
  /\ rr.pc = "ready"
  /\ rr' = [rr EXCEPT !.pc = "done", !.out = detect_section_priority(rr.section_title)]
  /\ UNCHANGED engine_vars

NextPriority == PriorityCall

SpecPriority == InitPriority /\ [][NextPriority]_vars

\* C20: a heading with a word holding a high-priority keyword, in any case,
\* is "high" whatever else it holds; one with a medium-priority keyword and
\* no high-priority one is "medium"; every other heading, the empty one
\* included, is "low"; the class does not depend on the case of the heading
PriorityFirstListWins ==
  rr.pc = "done" =>
    LET classes == {rr.words[i].class : i \in 1..Len(rr.words)}
    IN  /\ rr.out = IF "high" \in classes THEN "high"
                    ELSE IF "medium" \in classes THEN "medium"
                    ELSE "low"
        /\ detect_section_priority(Lower(rr.section_title)) = rr.out

\* "Delivery POLICY" holds a medium and a high keyword and is classified high
PriorityFirstListWinsWitness ==
  /\ rr.pc = "done"
  /\ rr.section_title = <<"D", "e", "l", "i", "v", "e", "r", "y", " ", "P", "O", "L", "I", "C", "Y">>
  /\ rr.out = "high"

\* C21: when k >= |candidates|, and for an empty candidate list, _mmr_rerank
\* returns the metadata of the candidates in the order of the candidate
\* list, none left out, whatever their boosted scores
ShortcutKeepsOrder ==
  (rr.pc = "done" /\ (rr.candidates = <<>> \/ rr.k >= Len(rr.candidates))) =>
    /\ Len(rr.out) = Len(rr.candidates)
    /\ Len(rr.out) <= Max(rr.k, 0)
    /\ \A i \in 1..Len(rr.out) : rr.out[i] = rr.candidates[i].meta

\* three candidates returned for k = 3 although the third has a higher
\* boosted score than the second
ShortcutKeepsOrderWitness ==
  /\ rr.pc = "done"
  /\ rr.k = 3
  /\ Len(rr.candidates) = 3
  /\ BoostedScore(rr.candidates[3].score, rr.candidates[3].meta)
       > BoostedScore(rr.candidates[2].score, rr.candidates[2].meta)
  /\ Len(rr.out) = 3
  /\ rr.out[2] = rr.candidates[2].meta

\* the place in the candidate list of a returned item (the candidates of a
\* call are distinct records)
CandIdx(item) == CHOOSE i \in 1..Len(rr.candidates) : rr.candidates[i].meta = item

\* 0.7 * boostedScore - 0.3 * penalty of candidate i against the first n
\* returned items, in units of 10^-7
Objective(i, n) ==
  LET m == rr.candidates[i].meta
      penalty == IF \E q \in 1..n : rr.out[q].title = m.title /\ rr.out[q].section = m.section
                 THEN 1 ELSE 0
  IN  7 * BoostedScore(rr.candidates[i].score, m) - 3 * penalty * 1000000

\* C22: every item _mmr_rerank selects after the first has the highest
\* value of 0.7 * boostedScore - 0.3 * penalty among the candidates not yet
\* selected, the penalty being 1 exactly when an item selected before has
\* the same title and the same section; among candidates of that highest
\* value it is the earliest of the candidate list
GreedyStepMaximises ==
  (rr.pc = "done" /\ rr.candidates # <<>> /\ rr.k < Len(rr.candidates)) =>
    \A p \in 2..Len(rr.out) :
      LET taken == {CandIdx(rr.out[q]) : q \in 1..(p - 1)}
          best == CandIdx(rr.out[p])
      IN  /\ best \notin taken
          /\ \A j \in (1..Len(rr.candidates)) \ taken :
               /\ Objective(best, p - 1) >= Objective(j, p - 1)
               /\ j < best => Objective(j, p - 1) < Objective(best, p - 1)

\* a second step in which the two candidates left tie, one of them of the
\* same document as the first item under another section, and the earlier
\* one is selected
GreedyStepMaximisesWitness ==
  /\ rr.pc = "done"
  /\ rr.k = 2
  /\ Len(rr.candidates) = 3
  /\ rr.candidates[1].meta.title = rr.candidates[2].meta.title
  /\ rr.candidates[1].meta.section # rr.candidates[2].meta.section
  /\ Objective(2, 1) = Objective(3, 1)
  /\ rr.out[2] = rr.candidates[2].meta

\* C23: for 1 <= k < |candidates|, _mmr_rerank returns exactly k items, each
\* the metadata of a candidate and no candidate twice, also when candidates
\* share title and section with items already selected
RerankReturnsK ==
  (rr.pc = "done" /\ 1 <= rr.k /\ rr.k < Len(rr.candidates)) =>
    /\ Len(rr.out) = rr.k
    /\ \A p \in 1..Len(rr.out) : \E i \in 1..Len(rr.candidates) : rr.out[p] = rr.candidates[i].meta
    /\ \A p, q \in 1..Len(rr.out) : p # q => rr.out[p] # rr.out[q]

\* two of three candidates returned, all three of one title and section
RerankReturnsKWitness ==
  /\ rr.pc = "done"
  /\ rr.k = 2
  /\ Len(rr.candidates) = 3
  /\ \A i \in 1..3 : /\ rr.candidates[i].meta.title = rr.candidates[1].meta.title
                     /\ rr.candidates[i].meta.section = rr.candidates[1].meta.section
  /\ Len(rr.out) = 2

\* ---------------------------------------------------------------------
\* the boost of one candidate alone (the for-loop body of _mmr_rerank)
\* ---------------------------------------------------------------------

\* metadata with and without heading_level and section_priority
BoostMetas ==
  [title : {"A.md"}, heading_level : 0..5, section_priority : {"high", "medium", "low"}]
  \cup [title : {"A.md"}, heading_level : 0..5]
  \cup [title : {"A.md"}, section_priority : {"high", "medium", "low"}]
  \cup [title : {"A.md"}]

\* raw similarities, in hundredths
BoostScores == {-50, 0, 50, 100}

InitBoost ==
  /\ \E c \in Configs :
       /\ c[1].vector_store = "memory"
       /\ c[1].llm_provider = "stub"
       /\ Constructed(c[1], c[2])
  /\ \E score \in BoostScores, m \in BoostMetas :
       rr = [pc |-> "ready", score |-> score, meta |-> m, out |-> 0]

\* the boost of one candidate
BoostCall ==
  /\ rr.pc = "ready"
  /\ rr' = [rr EXCEPT !.pc = "done", !.out = BoostedScore(rr.score, rr.meta)]
  /\ UNCHANGED engine_vars

NextBoost == BoostCall

SpecBoost == InitBoost /\ [][NextBoost]_vars

\* C24: the boosted score is the raw score times the heading-level factor
\* (1.20, 1.15, 1.10 for levels 1, 2, 3, else 1.0) times the
\* section-priority factor (1.15 high, 1.05 medium, 1.0 low), missing
\* metadata counting as level 0 and low; level 1 with high gives 1.38 times
\* the raw score. Scores are in hundredths, the result in units of 10^-6
BoostsMultiply ==
  rr.pc = "done" =>
    LET level == IF "heading_level" \in DOMAIN rr.meta THEN rr.meta.heading_level ELSE 0
        priority == IF "section_priority" \in DOMAIN rr.meta THEN rr.meta.section_priority
                    ELSE "low"
        h == IF level = 1 THEN 120 ELSE IF level = 2 THEN 115 ELSE IF level = 3 THEN 110 ELSE 100
        q == IF priority = "high" THEN 115 ELSE IF priority = "medium" THEN 105 ELSE 100
    IN  /\ rr.out = rr.score * h * q
        /\ (level = 1 /\ priority = "high") => rr.out = rr.score * 13800

\* a candidate of level 1 and high priority with raw score 0.50: 0.69
BoostsMultiplyWitness ==
  /\ rr.pc = "done"
  /\ rr.score = 50
  /\ "heading_level" \in DOMAIN rr.meta /\ rr.meta.heading_level = 1
  /\ "section_priority" \in DOMAIN rr.meta /\ rr.meta.section_priority = "high"
  /\ rr.out = 690000

\* ---------------------------------------------------------------------
\* chunk_text on texts of distinct words, so that the place of every token
\* of a chunk is known
\* ---------------------------------------------------------------------

WindowWords ==
  << <<"one">>, <<"two">>, <<"three">>, <<"four">>, <<"five">>, <<"six">>, <<"seven">>,
     <<"eight">> >>

\* "", "one", "one two", ... "one two three four five six seven eight"
WindowTexts == { Join(SubSeq(WindowWords, 1, n)) : n \in 0..Len(WindowWords) }

InitWindows ==
  /\ \E c \in Configs :
       /\ c[1].vector_store = "memory"
       /\ c[1].llm_provider = "stub"
       /\ Constructed(c[1], c[2])
  /\ \E text \in WindowTexts, chunk_size \in 1..(MaxChunkSize + 1) :
       \E overlap \in 0..(chunk_size - 1) :
         rr = [pc |-> "ready", text |-> text, chunk_size |-> chunk_size, overlap |-> overlap,
               out |-> <<>>]

SpecWindows == InitWindows /\ [][NextChunk]_vars

\* C25: for 0 <= overlap < chunk_size the i-th chunk of chunk_text (from 0)
\* holds the tokens from index i * (chunk_size - overlap) on, chunk_size of
\* them except in the last chunk; consecutive chunks share exactly overlap
\* tokens; the last chunk is the first window that reaches the end of the
\* text and holds a token the chunk before it does not; 8 tokens with
\* chunk_size 3 and overlap 1 give 4 chunks
ChunkWindows ==
  rr.pc = "done" =>
    LET tokens == Split(rr.text)
        step == rr.chunk_size - rr.overlap
        n == Len(rr.out)
        toks(c) == Split(rr.out[c])
        set(c) == {toks(c)[m] : m \in 1..Len(toks(c))}
    IN  /\ \A c \in 1..n :
             toks(c) = SubSeq(tokens, (c - 1) * step + 1,
                              Min((c - 1) * step + rr.chunk_size, Len(tokens)))
        /\ \A c \in 1..(n - 1) :
             /\ Len(toks(c)) = rr.chunk_size
             /\ Cardinality(set(c) \cap set(c + 1)) = rr.overlap
             /\ (c - 1) * step + rr.chunk_size < Len(tokens)
        /\ n >= 1 => /\ (n - 1) * step + rr.chunk_size >= Len(tokens)
                     /\ Len(toks(n)) \in 1..rr.chunk_size
        /\ n >= 2 => set(n) \ set(n - 1) # {}
        /\ (tokens # <<>>) => n >= 1
        /\ (Len(tokens) = 8 /\ rr.chunk_size = 3 /\ rr.overlap = 1) =>
             rr.out = << Join(SubSeq(WindowWords, 1, 3)), Join(SubSeq(WindowWords, 3, 5)),
                         Join(SubSeq(WindowWords, 5, 7)), Join(SubSeq(WindowWords, 7, 8)) >>

\* the example: eight words, chunk_size 3, overlap 1, four chunks, the last
\* of two words
ChunkWindowsWitness ==
  /\ rr.pc = "done"
  /\ Len(Split(rr.text)) = 8
  /\ rr.chunk_size = 3
  /\ rr.overlap = 1
  /\ Len(rr.out) = 4
  /\ Split(rr.out[4]) = << <<"seven">>, <<"eight">> >>

\* the content hashes of the records the vector store holds
StoredHashes ==
  IF store = "InMemoryStore" THEN {meta[i].hash : i \in 1..Len(meta)}
  ELSE {pt.payload.hash : pt \in qdrant_points}

\* C26: between requests every hash of the engine's dedup set is the hash of
\* a record held by the vector store, and total_chunks counts no more than
\* the records held: an ingest whose upsert raised has left the dedup set,
\* the titles and the counter as they were
DedupWithinStore ==
  AllIdle =>
    /\ chunk_hashes \subseteq StoredHashes
    /\ stats.total_chunks <= Cardinality(StoredHashes)
    /\ (chunk_hashes = {}) => (doc_titles = {})

\* C27: on the local store, between requests, total_chunks is the size of
\* the dedup set, the number of distinct chunk texts passed to ingest so far
\* and the number of records of the store, each record carrying the title
\* and section of the first chunk of its text; total_docs, total_chunks and
\* ask_count never decrease
LocalCountsAgree ==
  /\ [](store = "InMemoryStore" /\ AllIdle =>
          /\ stats.total_chunks = Cardinality(chunk_hashes)
          /\ stats.total_chunks = Cardinality(hist.first)
          /\ stats.total_chunks = Len(meta)
          /\ Len(vecs) = Len(meta)
          /\ \A i \in 1..Len(meta) :
               [text |-> meta[i].text, title |-> meta[i].title, section |-> meta[i].section]
                 \in hist.first)
  /\ [][store = "InMemoryStore" =>
          /\ Cardinality(doc_titles') >= Cardinality(doc_titles)
          /\ chunk_count' >= chunk_count
          /\ ask_count' >= ask_count]_vars

\* two ingests on the local store: the second brings a text already
\* indexed under another title, and a new one
LocalCountsAgreeWitness ==
  /\ store = "InMemoryStore"
  /\ AllIdle
  /\ stats.total_chunks = 5
  /\ stats.total_docs = 2
  /\ hist.sum_chunks = 5
  /\ \E r \in hist.first : r.title = "Returns_and_Refunds.md" /\ r.text = <<"see", " ", "terms">>
  /\ \A r \in hist.first : r.text = <<"see", " ", "terms">> => r.title = "Returns_and_Refunds.md"

\* C28: a search of the local store never sees the vector list and the
\* metadata list at different lengths, and an Ask request on the local store
\* never ends in an error of the search
LocalSearchSeesPairs ==
  store = "InMemoryStore" =>
    /\ \A t \in Threads : pc[t] = "retrieve" => Len(vecs) = Len(meta)
    /\ ~(last_resp.op = "ask" /\ last_resp.status = 500 /\ hist.store_raised)

\* ---------------------------------------------------------------------
\* chunk_text step by step: one action per pass of its while loop, for every
\* pair of integers chunk_size >= 1 and overlap >= 0 up to chunk_size + 1
\* ---------------------------------------------------------------------

\* Python's s[a:b] for any integers a and b
PySliceRange(s, a, b) ==
  LET norm(x) == IF x < 0 THEN Max(0, Len(s) + x) ELSE Min(x, Len(s))
  IN  SubSeq(s, norm(a) + 1, norm(b))

InitSteps ==
  /\ \E c \in Configs :
       /\ c[1].vector_store = "memory"
       /\ c[1].llm_provider = "stub"
       /\ Constructed(c[1], c[2])
  /\ \E text \in WindowTexts, chunk_size \in 1..MaxChunkSize :
       \E overlap \in 0..(chunk_size + 1) :
         rr = [pc |-> "ready", text |-> text, chunk_size |-> chunk_size, overlap |-> overlap,
               tokens |-> <<>>, i |-> 0, out |-> <<>>]

\* tokens = text.split(); chunks = []; i = 0
ChunkBegin ==
  /\ rr.pc = "ready"
  /\ rr' = [rr EXCEPT !.pc = "while", !.tokens = Split(rr.text), !.i = 0, !.out = <<>>]
  /\ UNCHANGED engine_vars

\* one pass of the while loop: the window is appended, then the loop is left
\* when the window reaches the end of the tokens, else i moves on
ChunkIterate ==
  /\ rr.pc = "while"
  /\ rr.i < Len(rr.tokens)
  /\ Len(rr.out) < MaxChunks
  /\ LET chunk == PySliceRange(rr.tokens, rr.i, rr.i + rr.chunk_size)
     IN  rr' = IF rr.i + rr.chunk_size >= Len(rr.tokens)
               THEN [rr EXCEPT !.pc = "done", !.out = Append(@, Join(chunk))]
               ELSE [rr EXCEPT !.out = Append(@, Join(chunk)),
                               !.i = @ + (rr.chunk_size - rr.overlap)]
  /\ UNCHANGED engine_vars

\* the while condition is false: return chunks
ChunkExit ==
  /\ rr.pc = "while"
  /\ ~(rr.i < Len(rr.tokens))
  /\ rr' = [rr EXCEPT !.pc = "done"]
  /\ UNCHANGED engine_vars

NextSteps == ChunkBegin \/ ChunkIterate \/ ChunkExit

\* the interpreter keeps running the call
SpecChunkSteps == InitSteps /\ [][NextSteps]_vars /\ WF_vars(NextSteps)

\* C29: for every text, chunk_size >= 1 and overlap >= 0, overlap >=
\* chunk_size included, the window start grows on every pass of the loop
\* that stays in the loop, and the call of chunk_text returns
ChunkTextTerminates ==
  /\ [][(rr.pc = "while" /\ rr'.pc = "while") => rr'.i > rr.i]_vars
  /\ <>(rr.pc = "done")

\* C30: in an Ask request the generator is entered only from a retrieve
\* that has returned and recorded its sample; a retrieve that raises ends the
\* request with an error, with no generator call and ask_count and the
\* generation samples unchanged; the metrics of a successful Ask response
\* count the request itself and average samples that include its own
AskStepsOrdered ==
  [][\A t \in Threads :
       /\ (pc'[t] = "generate" /\ pc[t] # "generate") =>
            /\ pc[t] = "retrieve"
            /\ Len(t_retrieval') = Len(t_retrieval) + 1
            /\ hist'.gen_calls = hist.gen_calls
       /\ (hist'.gen_calls # hist.gen_calls /\ pc[t] # pc'[t]) => pc[t] = "generate"
       /\ (pc[t] = "retrieve" /\ pc'[t] # "generate") =>
            /\ pc'[t] = "idle"
            /\ last_resp'.op = "ask" /\ last_resp'.status = 500
            /\ ask_count' = ask_count
            /\ t_generation' = t_generation
            /\ hist'.gen_calls = hist.gen_calls
       /\ (pc[t] = "respond" /\ pc'[t] = "idle") =>
            /\ last_resp'.op = "ask" /\ last_resp'.status = 200
            /\ last_resp'.metrics.ask_count = loc[t].entry + 1
            /\ t_retrieval # <<>> /\ t_retrieval[Len(t_retrieval)] = nreq
            /\ t_generation # <<>> /\ t_generation[Len(t_generation)] = nreq
            /\ last_resp'.metrics.avg_retrieval_latency_ms = Average(t_retrieval)
            /\ last_resp'.metrics.avg_generation_latency_ms = Average(t_generation)
  ]_vars

\* an Ask request whose retrieval raised, after an Ask request that was
\* answered: one generator call, one ask counted, one generation sample
AskStepsOrderedWitness ==
  /\ AllIdle
  /\ last_resp.op = "ask"
  /\ last_resp.status = 500
  /\ hist.store_raised
  /\ hist.gen_calls = 1
  /\ ask_count = 1
  /\ Len(t_generation) = 1

====
